---- MODULE Spec2Model ----
(***************************************************************************)
(* aio-site-advisor: the sequential research pipeline                      *)
(*   keyword_planner -> serp -> parser -> analyzer -> strategist           *)
(* and the agents and services its nodes call.                             *)
(*                                                                         *)
(* Conventions                                                             *)
(*  - A Python Optional value is a sequence of length 0 (None) or 1.       *)
(*  - A Python dict is a TLA+ function; the empty dict is <<>>.            *)
(*  - A GraphState (TypedDict, total=False) is a record of values plus the *)
(*    set "keys" of the keys the dict currently holds.                     *)
(*  - Japanese literals of the source are written in ASCII transliteration *)
(*    (" toha" for the suffix of the second catalogue entry, and so on):   *)
(*    only their identity and their length class matter to the code.       *)
(***************************************************************************)
EXTENDS Integers, Sequences, FiniteSets, TLC

VARIABLES settings, runs, state, pc, env, http, unit

vars == <<settings, runs, state, pc, env, http, unit>>

----------------------------------------------------------------------------
(* Bounds of the model *)

\* number of pipeline runs in flight in SpecRuns
MaxRuns == 2
\* the search capability may answer with up to this many items
MaxSerpReturn == 4
\* node calls made from one drawn state in SpecNodes
MaxHarnessCalls == 2
\* responses the scripted server holds in SpecFetch
MaxResponses == 3
\* largest limit fetch_serp_cse is called with in SpecFetch
MaxLimit == 2

(* Program constants *)

\* app/graph/nodes.py
MAX_ANALYZE_KEYWORDS == 2
MAX_SERP_RESULTS_PER_KEYWORD == 3
\* agents/analyzer_agent.py: its own, different, keyword ceiling
ANALYZER_MAX_ANALYZE_KEYWORDS == 1
MAX_PAGES_PER_KEYWORD == 5
\* agents/keyword_planner_agent.py
MAX_ITEMS_DEFAULT == 12
MAX_REASON_LEN == 30
\* agents/strategist_agent.py: keyword_plan.top_keywords(limit=10)
STRATEGY_TOP_N == 10

----------------------------------------------------------------------------
(* Python values *)

None == <<>>
Some(v) == <<v>>
IsNone(o) == Len(o) = 0
Unwrap(o) == o[1]

Min(a, b) == IF a <= b THEN a ELSE b
Max(a, b) == IF a >= b THEN a ELSE b

\* s[:n] for n >= 0
Take(s, n) == SubSeq(s, 1, Min(n, Len(s)))

Range(s) == {s[i] : i \in 1..Len(s)}

----------------------------------------------------------------------------
(* Python str operations, on TLC strings *)

CharAt(s, i) == SubSeq(s, i, i)

\* sub in s
Contains(s, sub) ==
    \E i \in 1..(Len(s) - Len(sub) + 1) : SubSeq(s, i, i + Len(sub) - 1) = sub

\* s.startswith(p)
StartsWith(s, p) == Len(p) <= Len(s) /\ SubSeq(s, 1, Len(p)) = p

Digits == {"0", "1", "2", "3", "4", "5", "6", "7", "8", "9"}

LowerCase == "abcdefghijklmnopqrstuvwxyz"
UpperCase == "ABCDEFGHIJKLMNOPQRSTUVWXYZ"

\* one character, upper-cased
UpperChar(c) ==
    IF \E i \in 1..26 : CharAt(LowerCase, i) = c
    THEN CharAt(UpperCase, CHOOSE i \in 1..26 : CharAt(LowerCase, i) = c)
    ELSE c

RECURSIVE UpperFrom(_, _)
UpperFrom(s, i) ==
    IF i > Len(s) THEN "" ELSE UpperChar(CharAt(s, i)) \o UpperFrom(s, i + 1)

\* s.upper()
Upper(s) == UpperFrom(s, 1)

IsDigitString(s) == Len(s) > 0 /\ \A i \in 1..Len(s) : CharAt(s, i) \in Digits

DigitValue(c) == CHOOSE d \in 0..9 : CharAt("0123456789", d + 1) = c

RECURSIVE DigitsToInt(_, _)
DigitsToInt(s, n) ==
    IF n = 0 THEN 0 ELSE 10 * DigitsToInt(s, n - 1) + DigitValue(CharAt(s, n))

\* whether int(s) accepts the string s (an optional sign, then digits)
IsIntString(s) ==
    \/ IsDigitString(s)
    \/ Len(s) > 1 /\ CharAt(s, 1) \in {"-", "+"} /\ IsDigitString(SubSeq(s, 2, Len(s)))

\* int(s) for such a string
StrToInt(s) ==
    IF CharAt(s, 1) = "-" THEN 0 - DigitsToInt(SubSeq(s, 2, Len(s)), Len(s) - 1)
    ELSE IF CharAt(s, 1) = "+" THEN DigitsToInt(SubSeq(s, 2, Len(s)), Len(s) - 1)
    ELSE DigitsToInt(s, Len(s))

----------------------------------------------------------------------------
(* JSON values as an external capability returns them *)

JNull == [t |-> "null"]
JStr(s) == [t |-> "str", s |-> s]
JInt(n) == [t |-> "int", n |-> n]
\* the JSON number Infinity (json.loads gives float('inf'))
JInf == [t |-> "inf", repr |-> "inf"]
\* any other JSON value (list, object): repr is Python's str() of it
JOther(repr) == [t |-> "other", repr |-> repr]

\* Python truthiness: "if not value"
Falsy(j) ==
    \/ j.t = "null"
    \/ j.t = "str" /\ j.s = ""
    \/ j.t = "int" /\ j.n = 0

\* str(value)
PyStr(j) ==
    CASE j.t = "str" -> j.s
      [] j.t = "int" -> ToString(j.n)
      [] j.t = "null" -> "None"
      [] OTHER -> j.repr

----------------------------------------------------------------------------
(* models/keyword_models.py *)

IntentType == {"KNOW", "COMPARE", "BUY", "NAVIGATIONAL"}

KeywordItem(keyword, intent, category, priority, reason) ==
    [keyword |-> keyword, intent |-> intent, category |-> category,
     priority |-> priority, reason |-> reason]

KeywordPlan(seed_keyword, items) == [seed_keyword |-> seed_keyword, items |-> items]

\* index of the first item of maximal priority
FirstMaxIndex(items) ==
    CHOOSE i \in 1..Len(items) :
        /\ \A j \in 1..Len(items) : items[j].priority <= items[i].priority
        /\ \A j \in 1..(i - 1) : items[j].priority < items[i].priority

RemoveAt(s, i) == SubSeq(s, 1, i - 1) \o SubSeq(s, i + 1, Len(s))

\* sorted(items, key=priority, reverse=True): stable, so items of equal
\* priority keep their order in the list
RECURSIVE SortedByPriorityDesc(_)
SortedByPriorityDesc(items) ==
    IF Len(items) = 0 THEN <<>>
    ELSE LET i == FirstMaxIndex(items)
         IN  <<items[i]>> \o SortedByPriorityDesc(RemoveAt(items, i))

\* top_keywords that cuts the list before it sorts
top_keywords_SliceFirst(plan, limit) == SortedByPriorityDesc(Take(plan.items, limit))

\* KeywordPlan.top_keywords(limit), limit >= 0
top_keywords(plan, limit) == Take(SortedByPriorityDesc(plan.items), limit)

----------------------------------------------------------------------------
(* agents/keyword_planner_agent.py *)

\* the fixed catalogue: (suffix, intent, category, priority, reason)
FallbackCatalog ==
    << <<"",               "KNOW",         "kiso-gaiyou",       5, "jiku keyword no tame saiyuusen">>,
       <<" toha",          "KNOW",         "kiso-gaiyou",       5, "teigi gaiyou content ga hitsuyou">>,
       <<" shurui",        "KNOW",         "kiso-gaiyou",       4, "lineup variation no kaisetsu">>,
       <<" hikaku",        "COMPARE",      "hikaku-sentei",     4, "tasha tono hikaku content">>,
       <<" jirei",         "KNOW",         "dounyuu-jirei",     4, "E-E-A-T kyouka ni yuukou">>,
       <<" sekkei",        "KNOW",         "sekkei-knowhow",    3, "sekkeisha muke gijutsu jouhou">>,
       <<" kyoudo keisan", "KNOW",         "sekkei-knowhow",    3, "gijutsukei needs muke">>,
       <<" kakaku",        "BUY",          "kounyuu-mitsumori", 3, "kakaku cost hikaku needs">>,
       <<" mitsumori",     "BUY",          "kounyuu-mitsumori", 3, "mitsumori lead kakutoku you">>,
       <<" maker",         "NAVIGATIONAL", "navigation",        2, "maker mei navigation needs muke">> >>

_fallback_plan(seed_keyword) ==
    KeywordPlan(seed_keyword,
        [i \in 1..Len(FallbackCatalog) |->
            KeywordItem(seed_keyword \o FallbackCatalog[i][1],
                        FallbackCatalog[i][2],
                        Some(FallbackCatalog[i][3]),
                        FallbackCatalog[i][4],
                        Some(FallbackCatalog[i][5]))])

\* the outcome of a call: an exception left it, or it returned v
Raised == [raised |-> TRUE]
Returned(v) == [raised |-> FALSE, value |-> v]

\* int(value) raises TypeError or ValueError
IntRaises(value) ==
    \/ value.t = "other"
    \/ value.t = "str" /\ ~IsIntString(value.s)

\* int(float('inf')) raises OverflowError, which the except clause does not
\* name: the exception leaves the function
_clamp_priority(value) ==
    IF value.t = "null" THEN Returned(3)
    ELSE IF value.t = "inf" THEN Raised
    ELSE IF IntRaises(value) THEN Returned(3)
    ELSE LET v == IF value.t = "int" THEN value.n ELSE StrToInt(value.s)
         IN  Returned(Max(1, Min(5, v)))

\* _normalize_intent that tests COMP before NAV
_normalize_intent_CompFirst(value) ==
    IF Falsy(value) THEN "KNOW"
    ELSE LET v == Upper(PyStr(value))
         IN  IF v \in IntentType THEN v
             ELSE IF Contains(v, "COMP") THEN "COMPARE"
             ELSE IF Contains(v, "NAV") THEN "NAVIGATIONAL"
             ELSE IF Contains(v, "BUY") \/ Contains(v, "PURCHASE") \/ Contains(v, "CV")
                  THEN "BUY"
             ELSE "KNOW"

_normalize_intent(value) ==
    IF Falsy(value) THEN "KNOW"
    ELSE LET v == Upper(PyStr(value))
         IN  IF v \in IntentType THEN v
             ELSE IF Contains(v, "NAV") THEN "NAVIGATIONAL"
             ELSE IF Contains(v, "COMP") THEN "COMPARE"
             ELSE IF Contains(v, "BUY") \/ Contains(v, "PURCHASE") \/ Contains(v, "CV")
                  THEN "BUY"
             ELSE "KNOW"

\* One entry of the "items" list of the generative capability's JSON answer.
\* A key the entry does not hold reads as JNull (raw.get(key)).
RawItem(keyword, intent, category, priority, reason) ==
    [is_dict |-> TRUE, keyword |-> keyword, intent |-> intent,
     category |-> category, priority |-> priority, reason |-> reason]
\* an entry that is not a JSON object
RawNonDict ==
    [is_dict |-> FALSE, keyword |-> JNull, intent |-> JNull,
     category |-> JNull, priority |-> JNull, reason |-> JNull]

\* the entries the loop turns into items: objects with a truthy keyword
Usable(raw) == raw.is_dict /\ ~Falsy(raw.keyword)

\* KeywordItem(...) raises a ValidationError: keyword must be a str,
\* category and reason a str or None
ItemInvalid(raw) ==
    \/ raw.keyword.t # "str"
    \/ raw.category.t \notin {"str", "null"}
    \/ raw.reason.t \notin {"str", "null"}

OptStr(j) == IF j.t = "null" THEN None ELSE Some(j.s)

\* an item that keeps the reason at its full length
NormalizedItem_FullReason(raw) ==
    KeywordItem(raw.keyword.s,
                _normalize_intent(raw.intent),
                OptStr(raw.category),
                _clamp_priority(raw.priority).value,
                OptStr(raw.reason))

NormalizedItem(raw) ==
    KeywordItem(raw.keyword.s,
                _normalize_intent(raw.intent),
                OptStr(raw.category),
                _clamp_priority(raw.priority).value,
                IF raw.reason.t = "str" /\ Len(raw.reason.s) > MAX_REASON_LEN
                THEN Some(SubSeq(raw.reason.s, 1, MAX_REASON_LEN))
                ELSE OptStr(raw.reason))

RECURSIVE FilterUsable(_)
FilterUsable(raws) ==
    IF Len(raws) = 0 THEN <<>>
    ELSE (IF Usable(Head(raws)) THEN <<Head(raws)>> ELSE <<>>) \o FilterUsable(Tail(raws))

\* The answer of the generative capability to the planner's request:
\*   kind     "transport_error"  chat.completions.create raised
\*            "no_content"       message.content is None
\*            "bad_json"         json.loads raised
\*            "not_object"       the JSON is not an object (data.get raises)
\*            "json"             an object
\*   items_t  "missing" | "null" | "list" | "not_list" : data.get("items")
\*   items    the list
LlmAnswer(kind, items_t, items) == [kind |-> kind, items_t |-> items_t, items |-> items]

\* _llm_plan(seed_keyword, site_profile, max_items) once the capability answered
_llm_plan(seed_keyword, has_key, answer, max_items) ==
    IF ~has_key THEN Raised
    ELSE IF answer.kind # "json" THEN Raised
    ELSE IF answer.items_t = "not_list" THEN Raised
    ELSE LET raw_items == IF answer.items_t = "list" THEN Take(answer.items, max_items)
                          ELSE <<>>
             usable == FilterUsable(raw_items)
         IN  IF \E i \in 1..Len(usable) :
                    ItemInvalid(usable[i]) \/ _clamp_priority(usable[i].priority).raised
             THEN Raised
             ELSE IF Len(usable) = 0 THEN Raised
             ELSE Returned(KeywordPlan(seed_keyword,
                      [i \in 1..Len(usable) |-> NormalizedItem(usable[i])]))

\* plan_keywords with an except clause that returns a plan without items
plan_keywords_EmptyOnFailure(seed_keyword, has_key, answer) ==
    IF ~has_key THEN _fallback_plan(seed_keyword)
    ELSE LET r == _llm_plan(seed_keyword, has_key, answer, MAX_ITEMS_DEFAULT)
         IN  IF r.raised THEN KeywordPlan(seed_keyword, <<>>) ELSE r.value

\* plan_keywords(seed_keyword, site_profile)
plan_keywords(seed_keyword, has_key, answer) ==
    IF ~has_key THEN _fallback_plan(seed_keyword)
    ELSE LET r == _llm_plan(seed_keyword, has_key, answer, MAX_ITEMS_DEFAULT)
         IN  IF r.raised THEN _fallback_plan(seed_keyword) ELSE r.value

----------------------------------------------------------------------------
(* models/serp_models.py, models/site_models.py *)

SerpResult(rank, title, url, snippet) ==
    [rank |-> rank, title |-> title, url |-> url, snippet |-> snippet]

HeadingNode(level, text, children) ==
    [level |-> level, text |-> text, children |-> children]

SiteStructure(url, title, meta_description, h1_list, headings, heading_tree, main_text, word_count, term_freq) ==
    [url |-> url, title |-> title, meta_description |-> meta_description,
     h1_list |-> h1_list, headings |-> headings, heading_tree |-> heading_tree,
     main_text |-> main_text, word_count |-> word_count, term_freq |-> term_freq]

----------------------------------------------------------------------------
(* services/html_parser.py *)

\* A fetched document as BeautifulSoup sees it: the text of the first
\* <title> (None without one), the content of <meta name="description">
\* (None without one), and the elements of the body in document order,
\* each a tag name and its stripped text.
Html(title, meta_description, body) ==
    [title |-> title, meta_description |-> meta_description, body |-> body]
Element(tag, text) == [tag |-> tag, text |-> text]

\* re.compile(r"h[1-6]") searched in the tag name
IsHeadingTag(name) ==
    \E i \in 1..(Len(name) - 1) :
        CharAt(name, i) = "h" /\ CharAt(name, i + 1) \in {"1", "2", "3", "4", "5", "6"}

\* soup.find_all(re.compile(r"h[1-6]"))
HeadingTags(html) == SelectSeq(html.body, LAMBDA e : IsHeadingTag(e.tag))

\* int(tag.name[1]) raises ValueError
LevelRaises(e) == CharAt(e.tag, 2) \notin Digits
TagLevel(e) == DigitValue(CharAt(e.tag, 2))

\* a flat list that keeps the headings h1 to h3 only
_build_heading_nodes_NoDeep(tags) ==
    LET kept == SelectSeq(tags, LAMBDA e : TagLevel(e) <= 3)
    IN  [i \in 1..Len(kept) |-> HeadingNode(TagLevel(kept[i]), kept[i].text, <<>>)]

_build_heading_nodes(tags) ==
    [i \in 1..Len(tags) |-> HeadingNode(TagLevel(tags[i]), tags[i].text, <<>>)]

\* The stack of open ancestors after the first n tags, as indices into tags
\* (the nodes are objects: the stack and the tree hold the same ones).
RECURSIVE PopWhile(_, _, _)
PopWhile(stack, tags, level) ==
    IF Len(stack) > 0 /\ TagLevel(tags[stack[Len(stack)]]) >= level
    THEN PopWhile(SubSeq(stack, 1, Len(stack) - 1), tags, level)
    ELSE stack

RECURSIVE StackAfter(_, _)
StackAfter(tags, n) ==
    IF n = 0 THEN <<>>
    ELSE Append(PopWhile(StackAfter(tags, n - 1), tags, TagLevel(tags[n])), n)

\* a builder that looks at the heading just before only and never pops
ParentOf_PreviousOnly(tags, n) ==
    IF n > 1 /\ TagLevel(tags[n - 1]) < TagLevel(tags[n]) THEN n - 1 ELSE 0

\* the node tag n is appended to: 0 for root_nodes, else the stack top
ParentOf(tags, n) ==
    LET popped == PopWhile(StackAfter(tags, n - 1), tags, TagLevel(tags[n]))
    IN  IF Len(popped) = 0 THEN 0 ELSE popped[Len(popped)]

RECURSIVE ChildrenFrom(_, _, _)
RECURSIVE NodeAt(_, _)
\* the children list of node p (root_nodes for p = 0), from tag i on
ChildrenFrom(tags, p, i) ==
    IF i > Len(tags) THEN <<>>
    ELSE (IF ParentOf(tags, i) = p THEN <<NodeAt(tags, i)>> ELSE <<>>)
         \o ChildrenFrom(tags, p, i + 1)
NodeAt(tags, i) ==
    HeadingNode(TagLevel(tags[i]), tags[i].text, ChildrenFrom(tags, i, i + 1))

_build_heading_tree(tags) == ChildrenFrom(tags, 0, 1)

ScriptTags == {"script", "style", "noscript"}

RECURSIVE JoinWith(_, _)
\* sep.join(parts)
JoinWith(parts, sep) ==
    IF Len(parts) = 0 THEN ""
    ELSE IF Len(parts) = 1 THEN parts[1]
    ELSE parts[1] \o sep \o JoinWith(Tail(parts), sep)

RECURSIVE CollapseFrom(_, _)
\* re.sub(r"\s+", " ", text) from character i on
CollapseFrom(text, i) ==
    IF i > Len(text) THEN ""
    ELSE IF CharAt(text, i) = " " /\ i > 1 /\ CharAt(text, i - 1) = " "
         THEN CollapseFrom(text, i + 1)
         ELSE CharAt(text, i) \o CollapseFrom(text, i + 1)

\* the text nodes get_text(" ", strip=True) joins: the title and every
\* element left after script, style and noscript are removed, empty ones dropped
TextNodes(html) ==
    LET kept == SelectSeq(html.body, LAMBDA e : e.tag \notin ScriptTags /\ e.text # "")
    IN  (IF IsNone(html.title) \/ Unwrap(html.title) = "" THEN <<>>
         ELSE <<Unwrap(html.title)>>)
        \o [i \in 1..Len(kept) |-> kept[i].text]

_extract_main_text(html) == CollapseFrom(JoinWith(TextNodes(html), " "), 1)

\* \w for ASCII text
WordChars ==
    {CharAt(LowerCase, i) : i \in 1..26} \cup {CharAt(UpperCase, i) : i \in 1..26}
    \cup Digits \cup {"_"}

\* The maximal runs of the characters c with (c \in class) = member, in order.
Runs(text, class, member) ==
    LET In(i) == (CharAt(text, i) \in class) = member
        IsEnd(i) == In(i) /\ (i = Len(text) \/ ~In(i + 1))
        StartOf(e) == CHOOSE b \in 1..e :
                          /\ \A j \in b..e : In(j)
                          /\ (b = 1 \/ ~In(b - 1))
        F[i \in 0..Len(text)] ==
            IF i = 0 THEN <<>>
            ELSE IF IsEnd(i) THEN Append(F[i - 1], SubSeq(text, StartOf(i), i))
            ELSE F[i - 1]
    IN  F[Len(text)]

\* re.sub(r"[^\w...]+", " ", text).split()
_tokenize(text) == Runs(text, WordChars, TRUE)

\* text.split()
PySplit(text) == Runs(text, {" "}, FALSE)

CountOf(tokens, t) == Cardinality({i \in 1..Len(tokens) : tokens[i] = t})

\* parse_html(url, html); raises when a heading tag's level does not parse
parse_html(url, html) ==
    LET tags == HeadingTags(html)
        h1s == SelectSeq(html.body, LAMBDA e : e.tag = "h1")
        main_text == _extract_main_text(html)
        tokens == _tokenize(main_text)
    IN  IF \E i \in 1..Len(tags) : LevelRaises(tags[i]) THEN Raised
        ELSE Returned(SiteStructure(
                 url,
                 IF IsNone(html.title) THEN Some(url) ELSE html.title,
                 html.meta_description,
                 [i \in 1..Len(h1s) |-> h1s[i].text],
                 _build_heading_nodes(tags),
                 _build_heading_tree(tags),
                 main_text,
                 Len(tokens),
                 [t \in Range(tokens) |-> CountOf(tokens, t)]))

----------------------------------------------------------------------------
(* services/crawler.py, agents/parser_agent.py *)

\* The outcome of one GET of a document: requests.get or raise_for_status
\* raised (timeout, connection error, HTTP error status), or the markup.
FetchFailed == [kind |-> "raise"]
FetchOk(html) == [kind |-> "ok", html |-> html]

\* fetch_html(url): one GET, no retry
fetch_html(url, outcome) ==
    IF outcome.kind = "raise" THEN Raised ELSE Returned(outcome.html)

\* the except branch of parse_sites_from_serp
FallbackStructure(res) ==
    LET snippet_or_empty == IF IsNone(res.snippet) THEN "" ELSE Unwrap(res.snippet)
    IN  SiteStructure(res.url, Some(res.title), res.snippet, <<>>, <<>>, <<>>,
                      snippet_or_empty, Len(PySplit(snippet_or_empty)), <<>>)

\* one iteration of the loop of parse_sites_from_serp
StructureFor(res, outcome) ==
    LET html == fetch_html(res.url, outcome)
    IN  IF html.raised THEN FallbackStructure(res)
        ELSE LET structure == parse_html(res.url, html.value)
             IN  IF structure.raised THEN FallbackStructure(res) ELSE structure.value

\* parse_sites_from_serp that drops the references whose fetch fails
parse_sites_from_serp_SkipFailed(serp_results, outcomes) ==
    LET fetched == SelectSeq([i \in 1..Len(serp_results) |-> i],
                             LAMBDA i : outcomes[i].kind # "raise")
    IN  [j \in 1..Len(fetched) |->
            StructureFor(serp_results[fetched[j]], outcomes[fetched[j]])]

\* parse_sites_from_serp(serp_results); outcomes[i] is the outcome of the GET
\* of serp_results[i].url
parse_sites_from_serp(serp_results, outcomes) ==
    [i \in 1..Len(serp_results) |-> StructureFor(serp_results[i], outcomes[i])]

\* parse_sites_for_keyword(keyword, serp_results): the two-argument call
parse_sites_for_keyword(keyword, serp_results, outcomes) ==
    parse_sites_from_serp(serp_results, outcomes)

----------------------------------------------------------------------------
(* urllib.parse.urlparse, as far as analyze_keyword_structures uses it *)

SchemeChars ==
    {CharAt(LowerCase, i) : i \in 1..26} \cup {CharAt(UpperCase, i) : i \in 1..26}
    \cup Digits \cup {"+", "-", "."}

\* position of the first character of s in chars at or after from, else Len(s) + 1
FindFirst(s, chars, from) ==
    IF \E i \in from..Len(s) : CharAt(s, i) \in chars
    THEN CHOOSE i \in from..Len(s) :
             /\ CharAt(s, i) \in chars
             /\ \A j \in from..(i - 1) : CharAt(s, j) \notin chars
    ELSE Len(s) + 1

\* the url with its scheme and the colon removed, when it has a scheme
AfterScheme(url) ==
    LET i == FindFirst(url, {":"}, 1)
    IN  IF /\ i > 1
           /\ i <= Len(url)
           /\ CharAt(url, 1) \notin (Digits \cup {"+", "-", "."})
           /\ \A j \in 1..(i - 1) : CharAt(url, j) \in SchemeChars
        THEN SubSeq(url, i + 1, Len(url))
        ELSE url

\* urlparse(url).netloc
UrlNetloc(url) ==
    LET rest == AfterScheme(url)
    IN  IF StartsWith(rest, "//")
        THEN SubSeq(rest, 3, FindFirst(rest, {"/", "?", "#"}, 3) - 1)
        ELSE ""

\* urlparse(url) raises ValueError("Invalid IPv6 URL"): unmatched brackets
UrlParseRaises(url) ==
    LET netloc == UrlNetloc(url)
    IN  Contains(netloc, "[") # Contains(netloc, "]")

----------------------------------------------------------------------------
(* models/analysis_models.py, agents/analyzer_agent.py *)

PageStructureMetrics(url, domain, title_length, meta_description_length, h1_count, h2_count, h3_count, word_count, keyword_in_title, keyword_in_h1, keyword_term_freq) ==
    [url |-> url, domain |-> domain, title_length |-> title_length,
     meta_description_length |-> meta_description_length, h1_count |-> h1_count,
     h2_count |-> h2_count, h3_count |-> h3_count, word_count |-> word_count,
     keyword_in_title |-> keyword_in_title, keyword_in_h1 |-> keyword_in_h1,
     keyword_term_freq |-> keyword_term_freq]

KeywordStructureAnalysis(keyword, pages) == [keyword |-> keyword, pages |-> pages]

RECURSIVE CountFrom(_, _, _)
\* str.count from character i on: occurrences that do not overlap, scanned
\* left to right; the empty needle matches between all characters
CountFrom(text, keyword, i) ==
    IF Len(keyword) = 0 THEN Len(text) - i + 2
    ELSE IF i + Len(keyword) - 1 > Len(text) THEN 0
    ELSE IF SubSeq(text, i, i + Len(keyword) - 1) = keyword
         THEN 1 + CountFrom(text, keyword, i + Len(keyword))
         ELSE CountFrom(text, keyword, i + 1)

_count_term_freq(text, keyword) ==
    IF text = "" THEN 0 ELSE CountFrom(text, keyword, 1)

\* _pick_keywords_for_analysis(plan, limit); KeywordPlan has top_keywords,
\* so the AttributeError branch is never taken
_pick_keywords_for_analysis(plan, limit) == top_keywords(plan, limit)

OrEmpty(o) == IF IsNone(o) THEN "" ELSE Unwrap(o)

\* metrics whose title test ignores case
MetricsFor_TitleAnyCase(keyword, p) ==
    PageStructureMetrics(
        p.url,
        UrlNetloc(p.url),
        Len(OrEmpty(p.title)),
        Len(OrEmpty(p.meta_description)),
        Len(p.h1_list),
        Cardinality({i \in 1..Len(p.headings) : p.headings[i].level = 2}),
        Cardinality({i \in 1..Len(p.headings) : p.headings[i].level = 3}),
        p.word_count,
        Contains(Upper(OrEmpty(p.title)), Upper(keyword)),
        Contains(JoinWith(p.h1_list, " "), keyword),
        _count_term_freq(p.main_text, keyword))

\* metrics that count the headings among the roots of the heading tree
MetricsFor_CountTreeRoots(keyword, p) ==
    PageStructureMetrics(
        p.url,
        UrlNetloc(p.url),
        Len(OrEmpty(p.title)),
        Len(OrEmpty(p.meta_description)),
        Len(p.h1_list),
        Cardinality({i \in 1..Len(p.heading_tree) : p.heading_tree[i].level = 2}),
        Cardinality({i \in 1..Len(p.heading_tree) : p.heading_tree[i].level = 3}),
        p.word_count,
        Contains(OrEmpty(p.title), keyword),
        Contains(JoinWith(p.h1_list, " "), keyword),
        _count_term_freq(p.main_text, keyword))

\* the body of the loop of analyze_keyword_structures, after urlparse
MetricsFor(keyword, p) ==
    PageStructureMetrics(
        p.url,
        UrlNetloc(p.url),
        Len(OrEmpty(p.title)),
        Len(OrEmpty(p.meta_description)),
        Len(p.h1_list),
        Cardinality({i \in 1..Len(p.headings) : p.headings[i].level = 2}),
        Cardinality({i \in 1..Len(p.headings) : p.headings[i].level = 3}),
        p.word_count,
        Contains(OrEmpty(p.title), keyword),
        Contains(JoinWith(p.h1_list, " "), keyword),
        _count_term_freq(p.main_text, keyword))

\* analyze_keyword_structures(keyword, pages)
analyze_keyword_structures(keyword, pages) ==
    LET target_pages == IF MAX_PAGES_PER_KEYWORD > 0
                        THEN Take(pages, MAX_PAGES_PER_KEYWORD) ELSE pages
    IN  IF \E i \in 1..Len(target_pages) : UrlParseRaises(target_pages[i].url)
        THEN Raised
        ELSE Returned(KeywordStructureAnalysis(keyword,
                 [i \in 1..Len(target_pages) |-> MetricsFor(keyword, target_pages[i])]))

\* site_structures.get(kw, [])
PagesOf(site_structures, kw) ==
    IF kw \in DOMAIN site_structures THEN site_structures[kw] ELSE <<>>

\* analyze_for_graph(site_structures, keyword_plan), keyword_plan an Optional
analyze_for_graph(site_structures, keyword_plan) ==
    IF IsNone(keyword_plan) THEN Returned(<<>>)
    ELSE LET targets == _pick_keywords_for_analysis(Unwrap(keyword_plan),
                                                    ANALYZER_MAX_ANALYZE_KEYWORDS)
             Limited(kw) == IF MAX_PAGES_PER_KEYWORD > 0
                            THEN Take(PagesOf(site_structures, kw), MAX_PAGES_PER_KEYWORD)
                            ELSE PagesOf(site_structures, kw)
             analysed == {targets[i].keyword : i \in
                             {j \in 1..Len(targets) :
                                 Len(PagesOf(site_structures, targets[j].keyword)) > 0}}
         IN  IF \E kw \in analysed : analyze_keyword_structures(kw, Limited(kw)).raised
             THEN Raised
             ELSE Returned([kw \in analysed |->
                               analyze_keyword_structures(kw, Limited(kw)).value])

----------------------------------------------------------------------------
(* models/strategy_models.py, agents/strategist_agent.py *)

KeywordStrategyItem(keyword, intent, priority, recommended_content_type, recommended_actions, notes) ==
    [keyword |-> keyword, intent |-> intent, priority |-> priority,
     recommended_content_type |-> recommended_content_type,
     recommended_actions |-> recommended_actions, notes |-> notes]

StrategySummary(seed_keyword, overview, global_recommendations, keyword_strategies) ==
    [seed_keyword |-> seed_keyword, overview |-> overview,
     global_recommendations |-> global_recommendations,
     keyword_strategies |-> keyword_strategies]

base_overview(seed_keyword) ==
    "seed_keyword='" \o seed_keyword \o "' wo kiten to shita kan-i senryaku summary. "
    \o "OPENAI_API_KEY misettei matawa LLM error ji no fallback."

\* The answer of the generative capability to the strategist's request:
\*   kind      "transport_error" | "bad_json" | "json"
\*   invalid   the JSON is not an object, or holds a value the loop cannot
\*             iterate or the pydantic models reject
\*   overview  data.get("overview", ""): None when the key is missing
\*   global_recommendations, keyword_strategies: the lists, mapped already
StrategyAnswer(kind, invalid, overview, global_recommendations, keyword_strategies) ==
    [kind |-> kind, invalid |-> invalid, overview |-> overview,
     global_recommendations |-> global_recommendations,
     keyword_strategies |-> keyword_strategies]

\* per-keyword items for the first items of the plan as they stand
FallbackItems_PlanOrder(keyword_plan, content_type, actions, notes) ==
    LET top == Take(keyword_plan.items, STRATEGY_TOP_N)
    IN  [i \in 1..Len(top) |->
            KeywordStrategyItem(top[i].keyword, Some(top[i].intent),
                                Some(top[i].priority), Some(content_type),
                                actions, Some(notes))]

\* the per-keyword items of the two deterministic branches
FallbackItems(keyword_plan, content_type, actions, notes) ==
    LET top == top_keywords(keyword_plan, STRATEGY_TOP_N)
    IN  [i \in 1..Len(top) |->
            KeywordStrategyItem(top[i].keyword, Some(top[i].intent),
                                Some(top[i].priority), Some(content_type),
                                actions, Some(notes))]

\* build_strategy with the deterministic branch handing back no global
\* recommendation
build_strategy_NoGlobal(seed_keyword, keyword_plan, analysis, has_key, answer) ==
    IF IsNone(keyword_plan) \/ ~has_key THEN
        StrategySummary(seed_keyword, base_overview(seed_keyword), <<>>,
            IF IsNone(keyword_plan) THEN <<>>
            ELSE FallbackItems(Unwrap(keyword_plan), "category or kiji page (fallback)",
                               <<>>, "LLM fushiyou no fallback kekka desu."))
    ELSE StrategySummary(seed_keyword, OrEmpty(answer.overview),
                         answer.global_recommendations, answer.keyword_strategies)

\* build_strategy(seed_keyword, keyword_plan, analysis, site_profile);
\* keyword_plan is an Optional; never raises
build_strategy(seed_keyword, keyword_plan, analysis, has_key, answer) ==
    IF IsNone(keyword_plan) THEN
        StrategySummary(seed_keyword, base_overview(seed_keyword),
            <<"mazu keyword planner de juuyou keyword wo sekkei shite kudasai.",
              "sekkei-zumi keyword wo moto ni SERP kouzou wo kaiseki shimasu.">>,
            <<>>)
    ELSE IF ~has_key THEN
        StrategySummary(seed_keyword, base_overview(seed_keyword),
            <<"shuyou keyword goto ni landing page wo youi suru koto wo kentou.",
              "kaku page de title/H1/honbun ni keyword wo shizen ni fukumeru.">>,
            FallbackItems(Unwrap(keyword_plan),
                "category or kiji page (fallback)",
                <<"kono keyword you no landing page umu wo kakunin suru",
                  "title midashi ni keyword wo shizen ni fukumeru">>,
                "LLM fushiyou no fallback kekka desu."))
    ELSE IF answer.kind = "json" /\ ~answer.invalid THEN
        StrategySummary(seed_keyword, OrEmpty(answer.overview),
            answer.global_recommendations, answer.keyword_strategies)
    ELSE
        StrategySummary(seed_keyword,
            base_overview(seed_keyword) \o "(LLM yobidashi error)",
            <<"shuyou keyword goto ni senyou page no seibi joukyou wo tanaoroshi.",
              "SERP joui page no kouzou wo sankou ni fuka kachi jouhou wo tsuika.">>,
            FallbackItems(Unwrap(keyword_plan),
                "category or kiji page (LLM shippai fallback)",
                <<"senyou page no umu wo kakunin suru",
                  "title/H1/honbun deno keyword shutsugen wo saitekika suru">>,
                "LLM yobidashi error ji no fallback kekka desu."))

----------------------------------------------------------------------------
(* app/graph/lg_state.py *)

GraphStateKeys ==
    {"seed_keyword", "keyword_plan", "serp_results", "site_structures",
     "analysis", "strategy", "current_node", "progress_messages"}

\* A GraphState: "keys" are the keys the dict holds; the field of a key the
\* dict does not hold carries what state.get(key) and state.get(key, {}) or {}
\* read for it (None, the empty dict, the empty list).
EmptyGraphState ==
    [keys |-> {}, seed_keyword |-> "", keyword_plan |-> None, serp_results |-> <<>>,
     site_structures |-> <<>>, analysis |-> <<>>, strategy |-> None,
     current_node |-> None, progress_messages |-> <<>>]

\* state[key] = value
SetKey(st, key, value) == [st EXCEPT ![key] = value, !.keys = @ \cup {key}]

\* create_initial_state(seed_keyword, site_profile): every key of the result
\* bundle is present from the start, with no plan, empty maps and an empty log
create_initial_state(seed_keyword) ==
    [EmptyGraphState EXCEPT !.keys = GraphStateKeys, !.seed_keyword = seed_keyword]

----------------------------------------------------------------------------
(* app/graph/nodes.py *)

\* _log_progress without the write of current_node
_log_progress_NoMarker(st, node, message) ==
    SetKey(st, "progress_messages",
           Append(st.progress_messages, "[" \o node \o "] " \o message))

\* _log_progress that starts the log over with the new line
_log_progress_Rewrite(st, node, message) ==
    SetKey(SetKey(st, "progress_messages", <<"[" \o node \o "] " \o message>>),
           "current_node", Some(node))

_log_progress(st, node, message) ==
    LET line == "[" \o node \o "] " \o message
    IN  SetKey(SetKey(st, "progress_messages", Append(st.progress_messages, line)),
               "current_node", Some(node))

\* what a node hands back: the state it returns, or the exception it lets
\* through (the dict it was given then holds what it had written so far)
NodeReturns(st) == [raised |-> FALSE, state |-> st]
NodeRaises(st) == [raised |-> TRUE, state |-> st]

\* keyword_planner_node(state); a state without seed_keyword makes
\* KeywordItem(keyword=None) raise inside plan_keywords
keyword_planner_node(st, has_key, answer) ==
    LET s1 == _log_progress(st, "keyword_planner", "start: generating keyword plan")
    IN  IF "seed_keyword" \notin st.keys THEN NodeRaises(s1)
        ELSE LET plan == plan_keywords(st.seed_keyword, has_key, answer)
                 s2 == SetKey(s1, "keyword_plan", Some(plan))
             IN  NodeReturns(_log_progress(s2, "keyword_planner",
                                           "done: keyword plan generated"))

\* What the search capability does with one query: it raises, or it answers
\* with a list (of any length: the capability need not honour the limit).
SearchRaises == [kind |-> "raise"]
SearchAnswers(results) == [kind |-> "ok", results |-> results]

\* search_serp_mock(query, limit): without search credentials the empty list
search_serp_mock(query, limit, configured, outcome) ==
    IF ~configured THEN Returned(<<>>)
    ELSE IF outcome.kind = "raise" THEN Raised
    ELSE Returned(outcome.results)

\* agents/serp_agent.py: fetch_serp_for_keyword(keyword, limit)
fetch_serp_for_keyword(keyword, limit, configured, outcome) ==
    search_serp_mock(keyword, limit, configured, outcome)

\* the loop body of serp_node without the slice
SerpResultsFor_NoSlice(k, configured, outcome) ==
    LET r == fetch_serp_for_keyword(k, MAX_SERP_RESULTS_PER_KEYWORD, configured, outcome)
    IN  IF r.raised THEN <<>> ELSE r.value

\* the try/except and the slice of the loop body of serp_node
SerpResultsFor(k, configured, outcome) ==
    LET r == fetch_serp_for_keyword(k, MAX_SERP_RESULTS_PER_KEYWORD, configured, outcome)
        results == IF r.raised THEN <<>> ELSE r.value
    IN  Take(results, MAX_SERP_RESULTS_PER_KEYWORD)

\* the keywords serp_node looks up, in order
TargetKeywords(keyword_plan) == top_keywords(keyword_plan, MAX_ANALYZE_KEYWORDS)

\* the loop of serp_node with the try/except around the loop instead of
\* inside it: the first search that raises ends the loop
SerpLoop_AbortOnRaise(targets, configured, outcomes) ==
    [k \in {targets[i].keyword : i \in 1..Len(targets)} |->
        LET last == CHOOSE i \in 1..Len(targets) :
                        /\ targets[i].keyword = k
                        /\ \A j \in (i + 1)..Len(targets) : targets[j].keyword # k
        IN  IF \E j \in 1..last : outcomes[j].kind = "raise" THEN <<>>
            ELSE SerpResultsFor(k, configured, outcomes[last])]

\* the dict the loop of serp_node builds; outcomes[i] is the outcome of the
\* search for the i-th target (a keyword met twice keeps its last list)
SerpLoop(targets, configured, outcomes) ==
    [k \in {targets[i].keyword : i \in 1..Len(targets)} |->
        LET last == CHOOSE i \in 1..Len(targets) :
                        /\ targets[i].keyword = k
                        /\ \A j \in (i + 1)..Len(targets) : targets[j].keyword # k
        IN  SerpResultsFor(k, configured, outcomes[last])]

\* serp_node(state)
serp_node(st, configured, outcomes) ==
    LET s1 == _log_progress(st, "serp", "start: fetch SERP for top keywords")
    IN  IF IsNone(st.keyword_plan)
        THEN NodeReturns(_log_progress(s1, "serp", "skipped: keyword_plan is None"))
        ELSE LET serp_results == SerpLoop(TargetKeywords(Unwrap(st.keyword_plan)),
                                          configured, outcomes)
                 s2 == SetKey(s1, "serp_results", serp_results)
             IN  NodeReturns(_log_progress(s2, "serp",
                     "done: fetched SERP for " \o ToString(Cardinality(DOMAIN serp_results))
                     \o " keywords (each up to "
                     \o ToString(MAX_SERP_RESULTS_PER_KEYWORD) \o " results)"))

\* parser_node(state); outcomes[kw][i] is the outcome of the GET of the i-th
\* source of kw. parse_sites_for_keyword catches every exception itself, so
\* the except branch of the loop is never taken.
parser_node(st, outcomes) ==
    LET s1 == _log_progress(st, "parser", "start: parsing HTML for SERP URLs")
        serp_results == st.serp_results
        site_structures ==
            [kw \in DOMAIN serp_results |->
                parse_sites_for_keyword(kw, serp_results[kw], outcomes[kw])]
        s2 == SetKey(s1, "site_structures", site_structures)
    IN  NodeReturns(_log_progress(s2, "parser", "done: parsed site structures"))

\* analyzer_node(state)
analyzer_node(st) ==
    LET s1 == _log_progress(st, "analyzer", "start: analyzing structures")
    IN  IF IsNone(st.keyword_plan)
        THEN NodeReturns(_log_progress(s1, "analyzer", "skipped: keyword_plan is None"))
        ELSE IF DOMAIN st.site_structures = {}
        THEN NodeReturns(_log_progress(s1, "analyzer", "skipped: site_structures is empty"))
        ELSE LET analysis == analyze_for_graph(st.site_structures, st.keyword_plan)
             IN  IF analysis.raised THEN NodeRaises(s1)
                 ELSE NodeReturns(_log_progress(SetKey(s1, "analysis", analysis.value),
                                                "analyzer", "done: analysis complete"))

\* strategist_node(state): enters the stage with one progress line and stores
\* the recommendation build_strategy returns
strategist_node(st, has_key, answer) ==
    LET s1 == _log_progress(st, "strategist", "start: building strategy")
        strategy == build_strategy(st.seed_keyword, st.keyword_plan, st.analysis,
                                   has_key, answer)
    IN  NodeReturns(SetKey(s1, "strategy", Some(strategy)))

----------------------------------------------------------------------------
(* app/graph/lg_workflow.py: run_workflow *)

Stages == <<"keyword_planner", "serp", "parser", "analyzer", "strategist">>

\* the node run_workflow calls after node has returned; "done" after the last
NextStage(node) ==
    CASE node = "keyword_planner" -> "serp"
      [] node = "serp" -> "parser"
      [] node = "parser" -> "analyzer"
      [] node = "analyzer" -> "strategist"
      [] node = "strategist" -> "done"

----------------------------------------------------------------------------
(* The environment: what the external capabilities may answer *)

Topics == {"bearing", "pump"}

RunIds == 1..MaxRuns

\* no call was made
NoCall == [kind |-> "none"]

LongReason == "a reason that is longer than thirty characters"

\* answers of the generative capability to the planner
PlannerAnswers ==
    { LlmAnswer("transport_error", "missing", <<>>),
      LlmAnswer("json", "list", <<>>),
      LlmAnswer("json", "list",
          << RawItem(JStr("gear"), JStr("buy now"), JNull, JInt(9), JNull),
             RawItem(JStr("gear oil"), JNull, JNull, JNull, JStr(LongReason)),
             RawItem(JStr("gear box"), JStr("compare"), JStr("cat"), JStr("4"), JNull) >>),
      LlmAnswer("json", "list",
          << RawItem(JStr("valve"), JNull, JNull, JInt(3), JNull),
             RawNonDict,
             RawItem(JStr("seal"), JStr("navi"), JNull, JInt(0), JNull),
             RawItem(JStr("valve"), JStr("KNOW"), JNull, JStr("high"), JNull) >>) }

BadUrl == "http://[bad"

\* the list of n items the search capability answers with; with bad, the
\* link of the first item is not a URL urlparse accepts
SearchResults(n, bad) ==
    [i \in 1..n |->
        SerpResult(i,
                   "Pump guide " \o ToString(i),
                   IF bad /\ i = 1 THEN BadUrl ELSE "https://example.com/p" \o ToString(i),
                   IF i % 2 = 1 THEN Some("fast motors for sale") ELSE None)]

\* the lengths of the lists the search capability answers with: none, as
\* many as asked for, more than asked for
SearchCounts == {0, MAX_SERP_RESULTS_PER_KEYWORD, MaxSerpReturn}

SearchOutcomes ==
    {SearchRaises}
    \cup {SearchAnswers(SearchResults(n, FALSE)) : n \in SearchCounts}
    \cup {SearchAnswers(SearchResults(1, TRUE))}

Page1 ==
    Html(Some("industrial pump guide"), Some("all about pumps"),
         << Element("h1", "Pump"), Element("h2", "types"), Element("script", "var x"),
            Element("h3", "e-mail"), Element("h2", "cost"),
            Element("p", "pump pump - text") >>)

FetchOutcomes == {FetchFailed, FetchOk(Page1)}

\* answers of the generative capability to the strategist
StrategyAnswers ==
    { StrategyAnswer("transport_error", FALSE, None, <<>>, <<>>),
      StrategyAnswer("json", FALSE, Some("focus on comparison pages"),
                     <<"add FAQ pages">>, <<>>),
      StrategyAnswer("json", FALSE, None, <<>>, <<>>) }

\* the capability is asked only when the credential is configured
AnswersIf(configured, answers) == IF configured THEN answers ELSE {NoCall}

----------------------------------------------------------------------------
(* State machine *)

\* no retrieval is under way
NoHttp == [phase |-> "off"]

\* env[r]: what the environment answered to run r, and the nodes r called
NoEnv == [planner |-> NoCall, search |-> <<>>, fetch |-> <<>>,
          strategist |-> NoCall, trace |-> <<>>, raised |-> FALSE]

TypeOK ==
    /\ settings \in [openai_api_key : BOOLEAN, google_search : BOOLEAN]
    /\ runs \subseteq RunIds
    /\ DOMAIN state = RunIds
    /\ DOMAIN pc = RunIds
    /\ \A r \in RunIds :
          pc[r] \in Range(Stages) \cup {"done", "raised", "off", "harness"}

\* run_workflow(seed_keyword) up to its first node call, for the runs in active
InitRuns(active) ==
    /\ runs = active
    /\ \E topic \in [active -> Topics] :
          state = [r \in RunIds |->
                      IF r \in active THEN create_initial_state(topic[r])
                      ELSE EmptyGraphState]
    /\ pc = [r \in RunIds |-> IF r \in active THEN "keyword_planner" ELSE "off"]
    /\ env = [r \in RunIds |-> NoEnv]
    /\ http = NoHttp
    /\ unit = NoCall

\* one run, any configuration
Init ==
    /\ settings \in [openai_api_key : BOOLEAN, google_search : BOOLEAN]
    /\ InitRuns({1})

\* whether run r is about to call node
MayCall(r, node) ==
    /\ r \in runs
    /\ IF pc[r] = "harness" THEN Len(env[r].trace) < MaxHarnessCalls
       ELSE pc[r] = node

\* where run r stands after node handed back result
PcAfter(r, node, result) ==
    IF pc[r] = "harness" THEN "harness"
    ELSE IF result.raised THEN "raised"
    ELSE NextStage(node)

\* run r has called node, which handed back result
Called(r, node, result, e) ==
    /\ state' = [state EXCEPT ![r] = result.state]
    /\ pc' = [pc EXCEPT ![r] = PcAfter(r, node, result)]
    /\ env' = [env EXCEPT ![r] = [e EXCEPT !.trace = Append(@, node),
                                           !.raised = result.raised]]
    /\ UNCHANGED <<settings, runs, http, unit>>

KeywordPlannerStep(r) ==
    /\ MayCall(r, "keyword_planner")
    /\ \E answer \in AnswersIf(settings.openai_api_key, PlannerAnswers) :
          Called(r, "keyword_planner",
                 keyword_planner_node(state[r], settings.openai_api_key, answer),
                 [env[r] EXCEPT !.planner = answer])

\* the number of searches serp_node makes from state st
SearchCount(st) ==
    IF IsNone(st.keyword_plan) THEN 0 ELSE Len(TargetKeywords(Unwrap(st.keyword_plan)))

SerpStep(r) ==
    /\ MayCall(r, "serp")
    /\ \E outcomes \in [1..SearchCount(state[r]) ->
                           AnswersIf(settings.google_search, SearchOutcomes)] :
          Called(r, "serp",
                 serp_node(state[r], settings.google_search, outcomes),
                 [env[r] EXCEPT !.search = outcomes])

\* one outcome for the GET of every source of every keyword
FetchPlans(serp_results) ==
    LET lens == {Len(serp_results[kw]) : kw \in DOMAIN serp_results}
    IN  {f \in [DOMAIN serp_results -> UNION {[1..n -> FetchOutcomes] : n \in lens}] :
            \A kw \in DOMAIN serp_results : Len(f[kw]) = Len(serp_results[kw])}

ParserStep(r) ==
    /\ MayCall(r, "parser")
    /\ \E outcomes \in FetchPlans(state[r].serp_results) :
          Called(r, "parser",
                 parser_node(state[r], outcomes),
                 [env[r] EXCEPT !.fetch = outcomes])

AnalyzerStep(r) ==
    /\ MayCall(r, "analyzer")
    /\ Called(r, "analyzer", analyzer_node(state[r]), env[r])

StrategistStep(r) ==
    /\ MayCall(r, "strategist")
    /\ \E answer \in AnswersIf(settings.openai_api_key /\ ~IsNone(state[r].keyword_plan),
                               StrategyAnswers) :
          Called(r, "strategist",
                 strategist_node(state[r], settings.openai_api_key, answer),
                 [env[r] EXCEPT !.strategist = answer])

Next ==
    \E r \in RunIds :
        \/ KeywordPlannerStep(r)
        \/ SerpStep(r)
        \/ ParserStep(r)
        \/ AnalyzerStep(r)
        \/ StrategistStep(r)

Spec == Init /\ [][Next]_vars

----------------------------------------------------------------------------
(* Two runs side by side *)

NoCredentials == [openai_api_key |-> FALSE, google_search |-> FALSE]

\* every run of RunIds is under way, each with a GraphState of its own
InitAllRuns ==
    /\ settings = NoCredentials
    /\ InitRuns(RunIds)

SpecRuns == InitAllRuns /\ [][Next]_vars

----------------------------------------------------------------------------
(* The nodes called on their own, from any GraphState a caller may hand them *)

HarnessTopic == "pump"

HarnessSources == [k \in {HarnessTopic} |-> SearchResults(1, FALSE)]

\* the values the three precondition keys may hold; "absent" leaves the key out
HarnessPlans == {"absent", "none", "plan"}
HarnessSerpResults == {"absent", "empty", "full"}
HarnessSiteStructures == {"absent", "empty", "full"}

HarnessState(plan, serp_results, site_structures) ==
    LET s0 == [EmptyGraphState EXCEPT !.keys = {"seed_keyword"},
                                      !.seed_keyword = HarnessTopic]
        s1 == CASE plan = "absent" -> s0
                [] plan = "none" -> SetKey(s0, "keyword_plan", None)
                [] plan = "plan" ->
                       SetKey(s0, "keyword_plan", Some(_fallback_plan(HarnessTopic)))
        s2 == CASE serp_results = "absent" -> s1
                [] serp_results = "empty" -> SetKey(s1, "serp_results", <<>>)
                [] serp_results = "full" -> SetKey(s1, "serp_results", HarnessSources)
        s3 == CASE site_structures = "absent" -> s2
                [] site_structures = "empty" -> SetKey(s2, "site_structures", <<>>)
                [] site_structures = "full" ->
                       SetKey(s2, "site_structures",
                              [k \in {HarnessTopic} |->
                                  <<FallbackStructure(HarnessSources[k][1])>>])
    IN  s3

HarnessStates ==
    {HarnessState(p, s, d) : p \in HarnessPlans, s \in HarnessSerpResults,
                             d \in HarnessSiteStructures}

InitNodes ==
    /\ settings = NoCredentials
    /\ runs = {1}
    /\ \E st \in HarnessStates :
          state = [r \in RunIds |-> IF r = 1 THEN st ELSE EmptyGraphState]
    /\ pc = [r \in RunIds |-> IF r = 1 THEN "harness" ELSE "off"]
    /\ env = [r \in RunIds |-> NoEnv]
    /\ http = NoHttp
    /\ unit = NoCall

SpecNodes == InitNodes /\ [][Next]_vars

----------------------------------------------------------------------------
(* services/serp_client.py, services/crawler.py against a scripted server *)

\* What one requests.get meets: the call raises (timeout, connection error),
\* or a response with a status; a 2xx response carries a body, read as JSON
\* by fetch_serp_cse (bad_json: resp.json() raises; items: data.get("items")
\* or []) and as markup by fetch_html.
HttpException == [kind |-> "exception"]
HttpStatus(code) == [kind |-> "response", status |-> code]
HttpOk(bad_json, items, html) ==
    [kind |-> "response", status |-> 200, bad_json |-> bad_json,
     items |-> items, html |-> html]

\* resp.raise_for_status() raises
StatusRaises(resp) == resp.status >= 400

\* one entry of "items": item.get("title", ""), item.get("link", ""),
\* item.get("snippet", "")
CseItem(title, link, snippet) == [title |-> title, link |-> link, snippet |-> snippet]

\* what a retrieval function did: its result, the requests.get calls it made
\* and the time.sleep calls it made
Retrieval(result, gets, sleeps) == [result |-> result, gets |-> gets, sleeps |-> sleeps]

\* fetch_serp_cse whose failed status check lets the HTTPError through
fetch_serp_cse_RaiseOnStatus(keyword, limit, resp) ==
    IF resp.kind # "exception" /\ StatusRaises(resp) THEN Retrieval(Raised, 1, 0)
    ELSE IF resp.kind = "exception" THEN Retrieval(Returned(<<>>), 1, 0)
    ELSE IF resp.bad_json THEN Retrieval(Raised, 1, 0)
    ELSE Retrieval(Returned([idx \in 1..Len(resp.items) |->
                      SerpResult(idx, resp.items[idx].title, resp.items[idx].link,
                                 Some(resp.items[idx].snippet))]), 1, 0)

\* fetch_serp_cse(keyword, limit) when its one requests.get meets resp
fetch_serp_cse(keyword, limit, resp) ==
    IF resp.kind = "exception" THEN Retrieval(Returned(<<>>), 1, 0)
    ELSE IF StatusRaises(resp) THEN Retrieval(Returned(<<>>), 1, 0)
    ELSE IF resp.bad_json THEN Retrieval(Raised, 1, 0)
    ELSE IF Len(resp.items) = 0 THEN Retrieval(Returned(<<>>), 1, 0)
    ELSE LET n == Min(Len(resp.items), Max(limit, 1))
         IN  Retrieval(Returned([idx \in 1..n |->
                           SerpResult(idx, resp.items[idx].title, resp.items[idx].link,
                                      Some(resp.items[idx].snippet))]),
                       1, 0)

\* soup.select("div.g") of a fetched page: the result blocks of a search
\* page, each with its first link (has_link, url), its h3 (has_title, title)
\* and the text of its snippet element; no block on any other page
ResultBlocks(html) == IF "blocks" \in DOMAIN html THEN html.blocks ELSE <<>>

\* fetch_serp_for_keyword_html(keyword, limit) when its one requests.get
\* meets resp: rank counts every block, kept or skipped
fetch_serp_for_keyword_html(keyword, limit, resp) ==
    IF resp.kind = "exception" THEN Retrieval(Returned(<<>>), 1, 0)
    ELSE IF StatusRaises(resp) THEN Retrieval(Returned(<<>>), 1, 0)
    ELSE IF "bot" \in DOMAIN resp.html /\ resp.html.bot THEN Retrieval(Returned(<<>>), 1, 0)
    ELSE LET blocks == ResultBlocks(resp.html)
             kept == SelectSeq([rank \in 1..Len(blocks) |-> rank],
                               LAMBDA rank : /\ blocks[rank].has_link
                                             /\ blocks[rank].has_title
                                             /\ blocks[rank].url # "")
             n == Min(Len(kept), Max(limit, 1))
         IN  Retrieval(Returned([j \in 1..n |->
                           SerpResult(kept[j], blocks[kept[j]].title, blocks[kept[j]].url,
                                      Some(blocks[kept[j]].snippet))]),
                       1, 0)

\* the outcome fetch_html sees when its one requests.get meets resp
HttpOutcome(resp) ==
    IF resp.kind = "exception" THEN FetchFailed
    ELSE IF StatusRaises(resp) THEN FetchFailed
    ELSE FetchOk(resp.html)

\* fetch_html(url) when its one requests.get meets resp
fetch_html_once(url, resp) == Retrieval(fetch_html(url, HttpOutcome(resp)), 1, 0)

CseItems ==
    << CseItem("Pump guide", "https://example.com/a", "fast motors"),
       CseItem("Pump shop", "https://example.com/b", ""),
       CseItem("", "https://example.com/c", "pumps") >>

\* a search page: a result, a block without h3 (a video or news box), two
\* more results; and the page shown to a client taken for a bot
SearchPages ==
    { [bot |-> FALSE,
       blocks |-> << [has_link |-> TRUE, has_title |-> TRUE, url |-> "https://example.com/a",
                      title |-> "Pump guide", snippet |-> "fast motors"],
                     [has_link |-> TRUE, has_title |-> FALSE, url |-> "https://example.com/v",
                      title |-> "", snippet |-> ""],
                     [has_link |-> TRUE, has_title |-> TRUE, url |-> "https://example.com/b",
                      title |-> "Pump shop", snippet |-> ""],
                     [has_link |-> TRUE, has_title |-> TRUE, url |-> "https://example.com/c",
                      title |-> "Pumps", snippet |-> "pumps"] >>],
      [bot |-> TRUE, blocks |-> <<>>] }

HttpResponses ==
    { HttpException, HttpStatus(429), HttpStatus(500),
      HttpOk(TRUE, <<>>, Page1), HttpOk(FALSE, CseItems, Page1) }
    \cup {HttpOk(TRUE, <<>>, page) : page \in SearchPages}

\* the limits fetch_serp_cse is called with
Limits == 0..MaxLimit

\* http.responses: what the server will answer to the coming requests;
\* http.last: the last retrieval made and the script it started from
InitFetch ==
    /\ \E configured \in BOOLEAN :
          settings = [openai_api_key |-> FALSE, google_search |-> configured]
    /\ runs = {}
    /\ state = [r \in RunIds |-> EmptyGraphState]
    /\ pc = [r \in RunIds |-> "off"]
    /\ env = [r \in RunIds |-> NoEnv]
    /\ unit = NoCall
    /\ \E script \in [1..MaxResponses -> HttpResponses] :
          http = [phase |-> "idle", responses |-> script, last |-> NoCall]

\* the retrieval fn was made; it did what did says
Retrieved(fn, limit, did) ==
    /\ http' = [http EXCEPT
                   !.responses = SubSeq(@, did.gets + 1, Len(@)),
                   !.last = [kind |-> "call", fn |-> fn, limit |-> limit,
                             before |-> http.responses, gets |-> did.gets,
                             sleeps |-> did.sleeps, result |-> did.result]]
    /\ UNCHANGED <<settings, runs, state, pc, env, unit>>

\* What the search service answers to the request of fetch_serp_cse. Without
\* credentials settings.google_search_api_key and google_search_cx are None,
\* requests leaves both parameters out, and the service refuses the key-less
\* request with status 403 unless the request fails before that.
CseResponse(resp) ==
    IF settings.google_search \/ resp.kind = "exception" THEN resp ELSE HttpStatus(403)

FetchSerpCseCall ==
    /\ http.phase = "idle"
    /\ Len(http.responses) > 0
    /\ \E limit \in Limits :
          Retrieved("fetch_serp_cse", limit,
                    fetch_serp_cse(HarnessTopic, limit, CseResponse(Head(http.responses))))

FetchHtmlCall ==
    /\ http.phase = "idle"
    /\ Len(http.responses) > 0
    /\ Retrieved("fetch_html", 0, fetch_html_once(BadUrl, Head(http.responses)))

FetchSerpHtmlCall ==
    /\ http.phase = "idle"
    /\ Len(http.responses) > 0
    /\ \E limit \in Limits :
          Retrieved("fetch_serp_for_keyword_html", limit,
                    fetch_serp_for_keyword_html(HarnessTopic, limit, Head(http.responses)))

NextFetch == FetchSerpCseCall \/ FetchSerpHtmlCall \/ FetchHtmlCall

SpecFetch == InitFetch /\ [][NextFetch]_vars

----------------------------------------------------------------------------
(* Properties *)

\* the parts of the result bundle
BundleKeys ==
    {"seed_keyword", "keyword_plan", "serp_results", "site_structures",
     "analysis", "strategy", "progress_messages"}

IsPrefix(s, t) == Len(s) <= Len(t) /\ s = SubSeq(t, 1, Len(s))

LastCalled(e) == e.trace[Len(e.trace)]

\* the progress lines new holds beyond those of old
NewLines(old, new) ==
    SubSeq(new.progress_messages, Len(old.progress_messages) + 1,
           Len(new.progress_messages))

\* C1: whatever the external calls answer, a run of the pipeline ends without
\* raising, and the state it ends with holds every part of the result bundle
\* (topic, plan, sources, documents, analysis, strategy, progress log).
C1_RunReturnsCompleteBundle ==
    \A r \in runs :
        /\ ~env[r].raised
        /\ pc[r] # "raised"
        /\ pc[r] = "done" =>
              /\ BundleKeys \subseteq state[r].keys
              /\ ~IsNone(state[r].keyword_plan)
              /\ ~IsNone(state[r].strategy)

\* C2: the stages of a run are called in the order keyword_planner, serp,
\* parser, analyzer, strategist, each once, the marker is the stage called
\* last, and a run that has left its stages has called all five and is done.
C2_StagesInOrderThenDone ==
    \A r \in runs :
        /\ IsPrefix(env[r].trace, Stages)
        /\ Len(env[r].trace) > 0 => state[r].current_node = Some(LastCalled(env[r]))
        /\ pc[r] \notin Range(Stages) => pc[r] = "done" /\ env[r].trace = Stages

\* the state key a stage requires
Requires(node) ==
    CASE node = "serp" -> "keyword_plan"
      [] node = "parser" -> "serp_results"
      [] node = "analyzer" -> "site_structures"

\* the key is missing, None or an empty map
MissingOrEmpty(st, key) == key \notin st.keys \/ DOMAIN st[key] = {}

SameOutsideLog(old, new) ==
    \A key \in GraphStateKeys \ {"progress_messages", "current_node"} :
        /\ key \in old.keys <=> key \in new.keys
        /\ old[key] = new[key]

\* C3: serp_node, parser_node and analyzer_node, called on a state whose
\* required key is missing or empty, return without raising, append a line
\* containing "skipped", and leave every key but the log and the marker alone.
C3_SkipPassesStateThrough ==
    [][\A r \in runs :
          ( /\ env'[r].trace # env[r].trace
            /\ LastCalled(env'[r]) \in {"serp", "parser", "analyzer"}
            /\ MissingOrEmpty(state[r], Requires(LastCalled(env'[r]))) )
          => /\ ~env'[r].raised
             /\ \E i \in 1..Len(NewLines(state[r], state'[r])) :
                   Contains(NewLines(state[r], state'[r])[i], "skipped")
             /\ SameOutsideLog(state[r], state'[r])]_vars

AllSourcesEmpty(st) ==
    \A kw \in DOMAIN st.serp_results : Len(st.serp_results[kw]) = 0

\* C4: when serp_node stored an empty source list for every keyword, then
\* once analyzer_node has been called the analysis map is empty, the log
\* holds an analyzer line containing "skipped", and nothing was raised.
C4_EmptySourcesSkipAnalysis ==
    \A r \in runs :
        (Len(env[r].trace) >= 4 /\ AllSourcesEmpty(state[r]))
        => /\ ~env[r].raised
           /\ DOMAIN state[r].analysis = {}
           /\ \E i \in 1..Len(state[r].progress_messages) :
                 /\ StartsWith(state[r].progress_messages[i], "[analyzer]")
                 /\ Contains(state[r].progress_messages[i], "skipped")

\* C5: with neither the generative credential nor the search credentials, a
\* run does not raise and ends with a strategy whose overview is not empty
\* and which holds at least one global recommendation.
C5_StrategyWithoutCredentials ==
    \A r \in runs :
        (~settings.openai_api_key /\ ~settings.google_search)
        => /\ pc[r] # "raised"
           /\ pc[r] = "done" =>
                 /\ ~IsNone(state[r].strategy)
                 /\ Unwrap(state[r].strategy).overview # ""
                 /\ Len(Unwrap(state[r].strategy).global_recommendations) >= 1

C5_Witness ==
    /\ ~settings.openai_api_key
    /\ ~settings.google_search
    /\ pc[1] = "done"
    /\ state[1].seed_keyword = "bearing"
    /\ Len(Unwrap(state[1].strategy).keyword_strategies) > 0

\* what one search outcome alone leaves for its keyword
ExpectedSources(outcome) ==
    IF outcome.kind = "ok" THEN Take(outcome.results, MAX_SERP_RESULTS_PER_KEYWORD)
    ELSE <<>>

\* the degenerate document of a source: its url and title, no headings, and
\* the word count of its snippet
Degenerate(doc, res) ==
    /\ doc.url = res.url
    /\ doc.title = Some(res.title)
    /\ doc.headings = <<>>
    /\ doc.heading_tree = <<>>
    /\ doc.word_count = Len(PySplit(OrEmpty(res.snippet)))

\* C6: serp_node and parser_node never raise; when serp_node has returned, a
\* keyword whose search raised holds the empty list and every other keyword
\* exactly what its own search gives; when parser_node has returned, a source
\* whose GET failed holds its degenerate document and every other source
\* exactly what its own document parses to.
C6_FailuresStayLocal ==
    \A r \in runs :
        /\ env[r].raised => Len(env[r].trace) \notin {2, 3}
        /\ pc[r] = "parser" =>
              LET targets == TargetKeywords(Unwrap(state[r].keyword_plan))
              IN  \A i \in 1..Len(targets) :
                      (\A j \in (i + 1)..Len(targets) :
                           targets[j].keyword # targets[i].keyword)
                      => state[r].serp_results[targets[i].keyword]
                             = ExpectedSources(env[r].search[i])
        /\ pc[r] = "analyzer" =>
              /\ DOMAIN state[r].site_structures = DOMAIN state[r].serp_results
              /\ \A kw \in DOMAIN state[r].serp_results :
                    /\ Len(state[r].site_structures[kw]) = Len(state[r].serp_results[kw])
                    /\ \A i \in 1..Len(state[r].serp_results[kw]) :
                          LET res == state[r].serp_results[kw][i]
                              doc == state[r].site_structures[kw][i]
                              outcome == env[r].fetch[kw][i]
                          IN  IF outcome.kind = "raise" THEN Degenerate(doc, res)
                              ELSE doc = parse_html(res.url, outcome.html).value

C6_Witness ==
    /\ pc[1] = "analyzer"
    /\ Len(env[1].search) = 2
    /\ env[1].search[1].kind = "raise"
    /\ env[1].search[2].kind = "ok"
    /\ \E kw \in DOMAIN state[1].serp_results :
          /\ Len(state[1].serp_results[kw]) >= 2
          /\ env[1].fetch[kw][1].kind = "raise"
          /\ env[1].fetch[kw][2].kind = "ok"
          /\ \E other \in DOMAIN state[1].serp_results :
                other # kw /\ state[1].serp_results[other] = <<>>

\* the positions of the n items of highest priority, the earlier item first
\* among equal priorities
TopIndices(items, n) ==
    {i \in 1..Len(items) :
        Cardinality({j \in 1..Len(items) :
                        \/ items[j].priority > items[i].priority
                        \/ items[j].priority = items[i].priority /\ j < i}) < n}

\* C7: once serp_node has returned, serp_results holds at most
\* MAX_ANALYZE_KEYWORDS keywords, those of the plan's items of highest
\* priority (the earlier item first among equals), each with at most
\* MAX_SERP_RESULTS_PER_KEYWORD sources; every analysis holds at most
\* MAX_PAGES_PER_KEYWORD pages.
C7_Ceilings ==
    \A r \in runs :
        /\ Len(env[r].trace) >= 2 =>
              LET items == Unwrap(state[r].keyword_plan).items
              IN  /\ Cardinality(DOMAIN state[r].serp_results) <= MAX_ANALYZE_KEYWORDS
                  /\ DOMAIN state[r].serp_results =
                         {items[i].keyword : i \in TopIndices(items, MAX_ANALYZE_KEYWORDS)}
                  /\ \A kw \in DOMAIN state[r].serp_results :
                         Len(state[r].serp_results[kw]) <= MAX_SERP_RESULTS_PER_KEYWORD
        /\ \A kw \in DOMAIN state[r].analysis :
              Len(state[r].analysis[kw].pages) <= MAX_PAGES_PER_KEYWORD

C7_Witness ==
    /\ Len(env[1].trace) >= 4
    /\ Len(Unwrap(state[1].keyword_plan).items) > MAX_ANALYZE_KEYWORDS
    /\ \E i \in 1..Len(env[1].search) :
          /\ env[1].search[i].kind = "ok"
          /\ Len(env[1].search[i].results) > MAX_SERP_RESULTS_PER_KEYWORD
    /\ \E kw \in DOMAIN state[1].analysis :
          Len(state[1].analysis[kw].pages) = MAX_SERP_RESULTS_PER_KEYWORD

\* the line holds a time of day: two digits, a colon, two digits
HasTimestamp(line) ==
    \E i \in 1..(Len(line) - 4) :
        /\ CharAt(line, i) \in Digits
        /\ CharAt(line, i + 1) \in Digits
        /\ CharAt(line, i + 2) = ":"
        /\ CharAt(line, i + 3) \in Digits
        /\ CharAt(line, i + 4) \in Digits

\* no run but r had its log or its marker written
OtherRunsUntouched(r) ==
    \A q \in RunIds \ {r} :
        /\ state'[q].progress_messages = state[q].progress_messages
        /\ state'[q].current_node = state[q].current_node

\* C8: every stage call appends exactly one progress line, which carries a
\* timestamp, and sets the marker to the stage called; the log and the marker
\* of the other runs are left alone.
C8_OneTimestampedLinePerStage ==
    [][\A r \in runs :
          env'[r].trace # env[r].trace
          => /\ Len(NewLines(state[r], state'[r])) = 1
             /\ HasTimestamp(NewLines(state[r], state'[r])[1])
             /\ state'[r].current_node = Some(LastCalled(env'[r]))
             /\ OtherRunsUntouched(r)]_vars

\* C8, amended: every stage call appends one line on entry and, for
\* keyword_planner, serp, parser and analyzer, a second line when it returns;
\* each line reads "[stage] message" and carries no timestamp; the marker is
\* set to the stage called; the other runs' log and marker are left alone.
C8_StageLinesAndMarker ==
    [][\A r \in runs :
          env'[r].trace # env[r].trace
          => LET node == LastCalled(env'[r])
                 new == NewLines(state[r], state'[r])
             IN  /\ Len(new) = IF env'[r].raised \/ node = "strategist" THEN 1 ELSE 2
                 /\ \A i \in 1..Len(new) :
                       /\ StartsWith(new[i], "[" \o node \o "] ")
                       /\ ~HasTimestamp(new[i])
                 /\ IsPrefix(state[r].progress_messages, state'[r].progress_messages)
                 /\ state'[r].current_node = Some(node)
                 /\ OtherRunsUntouched(r)]_vars

C8_Witness ==
    /\ pc[1] = "done"
    /\ pc[2] = "parser"
    /\ Len(state[1].progress_messages) = 9
    /\ Len(state[2].progress_messages) = 4
    /\ state[2].current_node = Some("serp")

\* C9: a retrieval makes at most 3 requests; answered with 429 three times
\* running it makes exactly 3 requests with exactly 2 sleeps between them and
\* then reports no result (max_retries = 2).
C9_RetriesOn429 ==
    (http.phase = "idle" /\ http.last.kind = "call")
    => LET c == http.last
       IN  /\ c.gets <= 3
           /\ ( /\ Len(c.before) >= 3
                /\ \A i \in 1..3 : c.before[i] = HttpStatus(429) )
              => /\ c.gets = 3
                 /\ c.sleeps = 2
                 /\ ~c.result.raised
                 /\ c.result.value = <<>>

MaxPriority(items) ==
    CHOOSE p \in {items[i].priority : i \in 1..Len(items)} :
        \A i \in 1..Len(items) : items[i].priority <= p

\* C10: once keyword_planner_node has called plan_keywords, without or with
\* the generative credential, nothing was raised and the plan holds at least
\* one item, among them one whose keyword is the topic and whose priority is
\* the highest of the plan.
C10_PlanHoldsTopicAtTop ==
    \A r \in runs :
        Len(env[r].trace) >= 1
        => /\ ~(Len(env[r].trace) = 1 /\ env[r].raised)
           /\ ~IsNone(state[r].keyword_plan)
           /\ LET items == Unwrap(state[r].keyword_plan).items
              IN  /\ Len(items) >= 1
                  /\ \E i \in 1..Len(items) :
                        /\ items[i].keyword = state[r].seed_keyword
                        /\ items[i].priority = MaxPriority(items)

----------------------------------------------------------------------------
(* The functions of the agents and services called on their own.           *)
(* unit holds one call: the function and its arguments, then its result.   *)

\* the longest heading sequence, plan and reference list a call is made with
MaxHeadings == 5
MaxPlanItems == 3
MaxRefs == 2

\* answers of the generative capability to the planner, every branch of
\* _llm_plan included
UnitPlannerAnswers ==
    PlannerAnswers
    \cup { LlmAnswer("no_content", "missing", <<>>),
           LlmAnswer("bad_json", "missing", <<>>),
           LlmAnswer("not_object", "missing", <<>>),
           LlmAnswer("json", "missing", <<>>),
           LlmAnswer("json", "null", <<>>),
           LlmAnswer("json", "not_list", <<>>),
           LlmAnswer("json", "list",
                     << RawNonDict,
                        RawItem(JNull, JStr("BUY"), JNull, JInt(5), JNull),
                        RawItem(JStr(""), JStr("BUY"), JNull, JInt(5), JNull) >>),
           LlmAnswer("json", "list",
                     << RawItem(JInt(7), JStr("BUY"), JNull, JInt(5), JNull) >>),
           LlmAnswer("json", "list",
                     << RawItem(JStr("hose"), JStr("BUY"), JNull, JInf, JNull) >>) }

\* priority values of an answer
PriorityInputs ==
    {JNull, JInf, JOther("[4]")}
    \cup {JInt(n) : n \in -1..7}
    \cup {JStr(s) : s \in {"4", "9", "-2", "+3", "high", "", "4.5"}}

\* intent labels of an answer
IntentInputs ==
    {JNull, JInt(0), JInt(5), JOther("['BUY']")}
    \cup {JStr(s) : s \in {"", "know", "Compare", "BUY", "navigational", "Navigational",
                           "navi", "comparison", "buy now", "purchase intent", "cv",
                           "nav-compare", "compare and buy", "info", "na", "co mp"}}

\* heading levels of a document; the text of a heading names its position
HeadingLevels == {1, 2, 3, 6}
HeadingSequences ==
    UNION { { [i \in 1..n |-> Element("h" \o ToString(levels[i]), "t" \o ToString(i))] :
                levels \in [1..n -> HeadingLevels] } : n \in 0..MaxHeadings }

\* plans whose items are named by their position
UnitPlans ==
    UNION { { KeywordPlan(HarnessTopic,
                  [i \in 1..n |-> KeywordItem("k" \o ToString(i), "KNOW", None,
                                              priorities[i], None)]) :
                priorities \in [1..n -> {1, 3, 5}] } : n \in 0..MaxPlanItems }

\* a document whose only text reads the same as a snippet
Page2 == Html(None, None, << Element("p", "fast e-mail") >>)
\* a document with an element whose name matches h[1-6] past its start
PageBad == Html(Some("chart"), None, << Element("h2", "intro"), Element("graph1", "x") >>)

UnitRefs ==
    { SerpResult(1, "Motors", "https://example.com/m", Some("fast motors for sale")),
      SerpResult(2, "Mail", "https://example.com/e", Some("fast e-mail")),
      SerpResult(3, "", "https://example.com/n", None) }
UnitFetchOutcomes == FetchOutcomes \cup {FetchOk(Page2), FetchOk(PageBad)}

\* a plan with more items than the strategist's top-N, priorities mixed
LongPlan ==
    KeywordPlan(HarnessTopic,
        [i \in 1..(STRATEGY_TOP_N + 2) |->
            KeywordItem("k" \o ToString(i), "KNOW", None, ((i * 2) % 5) + 1, None)])

\* answers of the generative capability to the strategist, every way the
\* call can fail included
UnitStrategyAnswers ==
    StrategyAnswers
    \cup { StrategyAnswer("bad_json", FALSE, None, <<>>, <<>>),
           StrategyAnswer("json", TRUE, None, <<>>, <<>>) }

\* the longest list of documents analyze_keyword_structures is called with
MaxDocs == 7

\* an answer with more usable entries than MAX_ITEMS_DEFAULT, entries that
\* are no objects or hold no keyword among them, every entry with a long
\* reason, a noisy intent and a priority of its position
LongPlannerAnswer ==
    LlmAnswer("json", "list",
        [i \in 1..(MAX_ITEMS_DEFAULT + 4) |->
            IF i = 3 THEN RawNonDict
            ELSE IF i = 5 THEN RawItem(JNull, JStr("buy"), JNull, JInt(i), JStr(LongReason))
            ELSE RawItem(JStr("k" \o ToString(i)), JStr("buy now"), JNull, JInt(i - 2),
                         JStr(LongReason))])

\* a document as the parser hands it on, with these fields
UnitDoc(url, title, h1_list, headings, heading_tree, main_text) ==
    SiteStructure(url, title, None, h1_list, headings, heading_tree, main_text,
                  Len(_tokenize(main_text)), <<>>)

\* documents: two that differ in their heading tree only (the flat list has
\* two h2 and one h3), titles with and without the capital, two h1 entries,
\* a text with overlapping repeats, a document without title, h1 and text,
\* and one whose url urlparse rejects
UnitDocs ==
    LET h2a == HeadingNode(2, "types", <<>>)
        h3 == HeadingNode(3, "gear", <<>>)
        h2b == HeadingNode(2, "cost", <<>>)
        flat == <<h2a, h3, h2b>>
    IN  { UnitDoc("https://example.com/1", Some("industrial pump guide"), <<"Pump">>, flat,
                  <<HeadingNode(2, "types", <<h3>>), h2b>>, "pump Pump pump"),
          UnitDoc("https://example.com/1", Some("industrial pump guide"), <<"Pump">>, flat,
                  <<>>, "pump Pump pump"),
          UnitDoc("https://example.com/2", Some("Pump guide"), <<"a", "b">>, <<>>, <<>>, "aaa"),
          UnitDoc("https://example.com/3", Some("a b"), <<"xa b">>, <<h3>>, <<h3>>, "aa aaaa a b"),
          UnitDoc("https://example.com/4", None, <<>>, <<>>, <<>>, ""),
          UnitDoc(BadUrl, Some("Pump"), <<>>, <<>>, <<>>, "Pump") }

\* the terms documents are analysed for
UnitTerms == {"Pump", "pump", "aa", "a b", "a"}

InitUnits ==
    /\ settings = NoCredentials
    /\ runs = {}
    /\ state = [r \in RunIds |-> EmptyGraphState]
    /\ pc = [r \in RunIds |-> "off"]
    /\ env = [r \in RunIds |-> NoEnv]
    /\ http = NoHttp
    /\ \/ \E seed_keyword \in Topics, has_key \in BOOLEAN, answer \in UnitPlannerAnswers :
             unit = [kind |-> "in", fn |-> "plan_keywords",
                     arg |-> [seed_keyword |-> seed_keyword, has_key |-> has_key,
                              answer |-> answer]]
       \/ \E value \in PriorityInputs :
             unit = [kind |-> "in", fn |-> "_clamp_priority", arg |-> value]
       \/ \E value \in IntentInputs :
             unit = [kind |-> "in", fn |-> "_normalize_intent", arg |-> value]
       \/ \E plan \in UnitPlans, limit \in 0..(MaxPlanItems + 1) :
             unit = [kind |-> "in", fn |-> "top_keywords",
                     arg |-> [plan |-> plan, limit |-> limit]]
       \/ \E tags \in HeadingSequences :
             unit = [kind |-> "in", fn |-> "headings", arg |-> tags]
       \/ \E answer \in UnitPlannerAnswers \cup {LongPlannerAnswer},
             max_items \in {0, MaxPlanItems, MAX_ITEMS_DEFAULT} :
             unit = [kind |-> "in", fn |-> "_llm_plan",
                     arg |-> [seed_keyword |-> HarnessTopic, answer |-> answer,
                              max_items |-> max_items]]
       \/ \E keyword \in UnitTerms, p \in UnitDocs :
             unit = [kind |-> "in", fn |-> "analyze_keyword_structures",
                     arg |-> [keyword |-> keyword, pages |-> <<p>>]]
       \/ \E n \in 0..MaxDocs :
             \E pages \in [1..n -> {p \in UnitDocs : p.title # None /\ p.h1_list # <<"Pump">>}] :
                unit = [kind |-> "in", fn |-> "analyze_keyword_structures",
                        arg |-> [keyword |-> "Pump", pages |-> pages]]
       \/ \E keyword_plan \in {None} \cup {Some(plan) : plan \in UnitPlans \cup {LongPlan}},
             has_key \in BOOLEAN, answer \in UnitStrategyAnswers :
             unit = [kind |-> "in", fn |-> "build_strategy",
                     arg |-> [seed_keyword |-> HarnessTopic, keyword_plan |-> keyword_plan,
                              has_key |-> has_key, answer |-> answer]]
       \/ \E n \in 0..MaxRefs :
             \E serp_results \in [1..n -> UnitRefs], outcomes \in [1..n -> UnitFetchOutcomes] :
                unit = [kind |-> "in", fn |-> "parse_sites_from_serp",
                        arg |-> [serp_results |-> serp_results, outcomes |-> outcomes]]

\* the call held by unit is made and ends as result says
UnitCalled(fn, result) ==
    /\ unit.kind = "in"
    /\ unit.fn = fn
    /\ unit' = [kind |-> "out", fn |-> fn, arg |-> unit.arg, result |-> result]
    /\ UNCHANGED <<settings, runs, state, pc, env, http>>

PlanKeywordsCall ==
    /\ unit.kind = "in" /\ unit.fn = "plan_keywords"
    /\ UnitCalled("plan_keywords",
                  Returned(plan_keywords(unit.arg.seed_keyword, unit.arg.has_key,
                                         unit.arg.answer)))

ClampPriorityCall ==
    /\ unit.kind = "in" /\ unit.fn = "_clamp_priority"
    /\ UnitCalled("_clamp_priority", _clamp_priority(unit.arg))

NormalizeIntentCall ==
    /\ unit.kind = "in" /\ unit.fn = "_normalize_intent"
    /\ UnitCalled("_normalize_intent", Returned(_normalize_intent(unit.arg)))

\* plan.top_keywords(limit); the plan is read again after the call
TopKeywordsCall ==
    /\ unit.kind = "in" /\ unit.fn = "top_keywords"
    /\ UnitCalled("top_keywords",
                  Returned([top |-> top_keywords(unit.arg.plan, unit.arg.limit),
                            plan |-> unit.arg.plan]))

\* _build_heading_nodes(soup) and _build_heading_tree(soup) on one document
HeadingsCall ==
    /\ unit.kind = "in" /\ unit.fn = "headings"
    /\ UnitCalled("headings",
                  Returned([headings |-> _build_heading_nodes(unit.arg),
                            heading_tree |-> _build_heading_tree(unit.arg)]))

ParseSitesCall ==
    /\ unit.kind = "in" /\ unit.fn = "parse_sites_from_serp"
    /\ UnitCalled("parse_sites_from_serp",
                  Returned(parse_sites_from_serp(unit.arg.serp_results, unit.arg.outcomes)))

\* build_strategy(seed_keyword, keyword_plan, {}) with the credential set or not
BuildStrategyCall ==
    /\ unit.kind = "in" /\ unit.fn = "build_strategy"
    /\ UnitCalled("build_strategy",
                  Returned(build_strategy(unit.arg.seed_keyword, unit.arg.keyword_plan, <<>>,
                                          unit.arg.has_key, unit.arg.answer)))

\* _llm_plan(seed_keyword, None, max_items) with the credential set
LlmPlanCall ==
    /\ unit.kind = "in" /\ unit.fn = "_llm_plan"
    /\ UnitCalled("_llm_plan",
                  _llm_plan(unit.arg.seed_keyword, TRUE, unit.arg.answer, unit.arg.max_items))

AnalyzeCall ==
    /\ unit.kind = "in" /\ unit.fn = "analyze_keyword_structures"
    /\ UnitCalled("analyze_keyword_structures",
                  analyze_keyword_structures(unit.arg.keyword, unit.arg.pages))

NextUnits ==
    \/ LlmPlanCall
    \/ AnalyzeCall
    \/ BuildStrategyCall
    \/ PlanKeywordsCall
    \/ ClampPriorityCall
    \/ NormalizeIntentCall
    \/ TopKeywordsCall
    \/ HeadingsCall
    \/ ParseSitesCall

SpecUnits == InitUnits /\ [][NextUnits]_vars

----------------------------------------------------------------------------
(* Properties of the functions called on their own (SpecUnits) *)

\* the call fn has been made
Done(fn) == unit.kind = "out" /\ unit.fn = fn

\* the deterministic plan of a topic, read off the catalogue: ten items, the
\* topic itself first with priority 5, a function of the topic only
CatalogPlan(topic) ==
    KeywordPlan(topic,
        [i \in 1..10 |->
            KeywordItem(topic \o FallbackCatalog[i][1], FallbackCatalog[i][2],
                        Some(FallbackCatalog[i][3]), FallbackCatalog[i][4],
                        Some(FallbackCatalog[i][5]))])

\* the generative call ended in a transport error, a parse failure or a
\* result with no usable item
NoUsableAnswer(answer) ==
    \/ answer.kind \in {"transport_error", "no_content", "bad_json", "not_object"}
    \/ answer.kind = "json" /\ answer.items_t \in {"missing", "null", "not_list"}
    \/ answer.kind = "json" /\ answer.items_t = "list"
       /\ \A i \in 1..Len(answer.items) : ~Usable(answer.items[i])

\* C11: plan_keywords returns exactly the catalogue plan of the topic when the
\* generative credential is absent, whatever the capability would have
\* answered, and when the generative call ends in a transport error, a parse
\* failure or a result with no usable items; that plan depends on the topic only.
C11_FallbackPlanOfTopic ==
    Done("plan_keywords") =>
        /\ (~unit.arg.has_key \/ NoUsableAnswer(unit.arg.answer))
              => /\ unit.result = Returned(CatalogPlan(unit.arg.seed_keyword))
                 /\ unit.result.value.items[1].keyword = unit.arg.seed_keyword
                 /\ unit.result.value.items[1].priority = 5
        /\ ~(~unit.arg.has_key \/ NoUsableAnswer(unit.arg.answer))
              => \/ unit.result = Returned(CatalogPlan(unit.arg.seed_keyword))
                 \/ /\ unit.result.value.seed_keyword = unit.arg.seed_keyword
                    /\ Len(unit.result.value.items) > 0

\* the credential is set, the answer is a list none of whose entries is
\* usable, and the catalogue plan came back
C11_Witness ==
    /\ Done("plan_keywords")
    /\ unit.arg.has_key
    /\ unit.arg.answer.kind = "json" /\ unit.arg.answer.items_t = "list"
    /\ Len(unit.arg.answer.items) > 0
    /\ NoUsableAnswer(unit.arg.answer)
    /\ unit.result = Returned(CatalogPlan(unit.arg.seed_keyword))

\* fetching reference res fails, or the fetched document does not parse
FetchOrParseFails(res, outcome) ==
    \/ outcome.kind = "raise"
    \/ outcome.kind = "ok" /\ parse_html(res.url, outcome.html).raised

\* C12: parse_sites_from_serp never raises and returns exactly one document
\* structure per source reference, in input order and with that reference's
\* url; when fetching or parsing a reference fails its structure is the
\* degenerate one: title from the reference's title, description and main text
\* from its snippet (empty text without a snippet), no h1, no flat headings, no
\* heading tree.
C12_OneStructurePerReference ==
    Done("parse_sites_from_serp") =>
        LET refs == unit.arg.serp_results
            outcomes == unit.arg.outcomes
        IN  /\ ~unit.result.raised
            /\ Len(unit.result.value) = Len(refs)
            /\ \A i \in 1..Len(refs) :
                  LET s == unit.result.value[i]
                  IN  /\ s.url = refs[i].url
                      /\ FetchOrParseFails(refs[i], outcomes[i]) =>
                            /\ s.title = Some(refs[i].title)
                            /\ s.meta_description = refs[i].snippet
                            /\ s.main_text = (IF refs[i].snippet = None THEN ""
                                              ELSE refs[i].snippet[1])
                            /\ s.h1_list = <<>>
                            /\ s.headings = <<>>
                            /\ s.heading_tree = <<>>

\* two references: the document of the first is fetched but does not parse,
\* the second has no snippet and its fetch fails
C12_Witness ==
    /\ Done("parse_sites_from_serp")
    /\ Len(unit.arg.serp_results) = 2
    /\ unit.arg.outcomes[1] = FetchOk(PageBad)
    /\ unit.arg.outcomes[2] = FetchFailed
    /\ unit.arg.serp_results[1].snippet # None
    /\ unit.arg.serp_results[2].snippet = None
    /\ unit.result.value[1].headings = <<>>
    /\ unit.result.value[2].main_text = ""

\* C13: every document structure the fetcher/parser produces, parsed or
\* degenerate, has word_count equal to the token count of the main text it
\* carries under one and the same token definition for both kinds: whatever
\* that definition is, two structures of one result that carry the same main
\* text have the same word_count.
C13_OneTokenDefinition ==
    Done("parse_sites_from_serp") =>
        LET docs == unit.result.value
        IN  \A i, j \in 1..Len(docs) :
               docs[i].main_text = docs[j].main_text
                  => docs[i].word_count = docs[j].word_count

\* the level of heading i of a heading sequence
LevelOf(tags, i) == DigitValue(SubSeq(tags[i].tag, 2, 2))

\* The nearest heading before i with a strictly smaller level that no heading
\* in between has closed (a heading closes every open heading whose level is
\* not smaller than its own); 0 when there is none.
NearestOpenSmaller(tags, i) ==
    LET open == {j \in 1..(i - 1) :
                    /\ LevelOf(tags, j) < LevelOf(tags, i)
                    /\ \A k \in (j + 1)..(i - 1) : LevelOf(tags, k) > LevelOf(tags, j)}
    IN  IF open = {} THEN 0 ELSE CHOOSE j \in open : \A k \in open : k <= j

\* the positions (named by the headings' texts) of a list of nodes
TextsOf(nodes) == [i \in 1..Len(nodes) |-> nodes[i].text]

RECURSIVE FindNode(_, _)
\* the node with the given text in a forest, as a sequence of length 0 or 1
FindNode(nodes, text) ==
    IF Len(nodes) = 0 THEN <<>>
    ELSE IF Head(nodes).text = text THEN <<Head(nodes)>>
    ELSE LET below == FindNode(Head(nodes).children, text)
         IN  IF Len(below) > 0 THEN below ELSE FindNode(Tail(nodes), text)

\* the texts of the headings whose expected parent is p, in document order
ExpectedChildren(tags, p) ==
    LET idx == SelectSeq([i \in 1..Len(tags) |-> i],
                         LAMBDA i : NearestOpenSmaller(tags, i) = p)
    IN  [k \in 1..Len(idx) |-> tags[idx[k]].text]

\* C14: for every sequence of heading levels the tree builder makes each
\* heading the last child of the nearest preceding heading with a strictly
\* smaller level that is still open, or a root when there is none; every child
\* has a level strictly greater than its parent's, the stack of open headings
\* is strictly increasing in level from bottom to top, and the levels
\* 1,3,2,1,2 give exactly 2 roots.
C14_ParentIsNearestOpenSmaller ==
    Done("headings") =>
        LET tags == unit.arg
            tree == unit.result.value.heading_tree
        IN  /\ TextsOf(tree) = ExpectedChildren(tags, 0)
            /\ \A i \in 1..Len(tags) :
                  LET node == FindNode(tree, tags[i].text)
                  IN  /\ Len(node) = 1
                      /\ node[1].level = LevelOf(tags, i)
                      /\ TextsOf(node[1].children) = ExpectedChildren(tags, i)
                      /\ \A c \in 1..Len(node[1].children) :
                            node[1].children[c].level > node[1].level
            /\ \A n \in 0..Len(tags) :
                  LET stack == StackAfter(tags, n)
                  IN  \A a, b \in 1..Len(stack) :
                         a < b => LevelOf(tags, stack[a]) < LevelOf(tags, stack[b])
            /\ [i \in 1..Len(tags) |-> LevelOf(tags, i)] = <<1, 3, 2, 1, 2>>
                  => Len(tree) = 2

\* the levels 1,3,2,1,2: two roots, the first with the children h3 and h2
C14_Witness ==
    /\ Done("headings")
    /\ [i \in 1..Len(unit.arg) |-> LevelOf(unit.arg, i)] = <<1, 3, 2, 1, 2>>
    /\ Len(unit.result.value.heading_tree) = 2
    /\ TextsOf(unit.result.value.heading_tree[1].children) = <<"t2", "t3">>
    /\ TextsOf(unit.result.value.heading_tree[2].children) = <<"t5">>

RECURSIVE Preorder(_)
\* the (level, text) pairs of a forest in pre-order: a node, then its
\* children's subtrees, then its later siblings
Preorder(nodes) ==
    IF Len(nodes) = 0 THEN <<>>
    ELSE <<[level |-> Head(nodes).level, text |-> Head(nodes).text]>>
         \o Preorder(Head(nodes).children) \o Preorder(Tail(nodes))

\* C15: for every heading sequence the flat heading list has the length and
\* the order of the input, every heading occurs exactly once in the heading
\* tree, and the pre-order traversal of the tree gives the (level, text)
\* sequence of the flat list; so also for the levels 3,1,2 and 6,1.
C15_TreePreorderIsFlatList ==
    Done("headings") =>
        LET tags == unit.arg
            flat == unit.result.value.headings
            walk == Preorder(unit.result.value.heading_tree)
        IN  /\ Len(flat) = Len(tags)
            /\ \A i \in 1..Len(tags) :
                  /\ flat[i].level = LevelOf(tags, i)
                  /\ flat[i].text = tags[i].text
                  /\ flat[i].children = <<>>
                  /\ Cardinality({k \in 1..Len(walk) : walk[k].text = tags[i].text}) = 1
            /\ Len(walk) = Len(tags)
            /\ walk = [i \in 1..Len(flat) |-> [level |-> flat[i].level, text |-> flat[i].text]]

\* the levels 3,1,2: two roots, the second with one child, three flat headings
C15_Witness ==
    /\ Done("headings")
    /\ [i \in 1..Len(unit.arg) |-> LevelOf(unit.arg, i)] = <<3, 1, 2>>
    /\ Len(unit.result.value.headings) = 3
    /\ Len(unit.result.value.heading_tree) = 2
    /\ Preorder(unit.result.value.heading_tree)
          = <<[level |-> 3, text |-> "t1"], [level |-> 1, text |-> "t2"],
              [level |-> 2, text |-> "t3"]>>

----------------------------------------------------------------------------
(* Properties of the retrieval client (SpecFetch) *)

\* the last retrieval was a search and it returned a list
SearchReturned ==
    /\ http.phase = "idle"
    /\ http.last.kind = "call"
    /\ http.last.fn \in {"fetch_serp_cse", "fetch_serp_for_keyword_html"}
    /\ ~http.last.result.raised

\* C16: for every limit, 0 included, the list a search returns holds
\* k <= limit source references whose ranks are exactly 1, 2, ..., k in list
\* order.
C16_RanksOneToK ==
    SearchReturned =>
        LET refs == http.last.result.value
        IN  /\ Len(refs) <= http.last.limit
            /\ \A i \in 1..Len(refs) : refs[i].rank = i

----------------------------------------------------------------------------
(* Properties of the functions called on their own, continued *)

\* the position in items of the item with this keyword (keywords name positions)
PositionOf(items, keyword) == CHOOSE i \in 1..Len(items) : items[i].keyword = keyword

\* C18: top_keywords(N), N >= 0, returns min(N, number of items) items of the
\* plan, ordered by priority descending with items of equal priority in their
\* insertion order; no omitted item has a higher priority than a returned
\* one; the plan's item list is left unchanged.
C18_TopNByPriority ==
    Done("top_keywords") =>
        LET items == unit.arg.plan.items
            top == unit.result.value.top
            n == unit.arg.limit
        IN  /\ Len(top) = (IF n <= Len(items) THEN n ELSE Len(items))
            /\ \A k \in 1..Len(top) : \E i \in 1..Len(items) : items[i] = top[k]
            /\ \A a, b \in 1..Len(top) :
                  a < b =>
                     \/ top[a].priority > top[b].priority
                     \/ /\ top[a].priority = top[b].priority
                        /\ PositionOf(items, top[a].keyword) < PositionOf(items, top[b].keyword)
            /\ \A i \in 1..Len(items) :
                  (\A k \in 1..Len(top) : top[k] # items[i])
                     => \A k \in 1..Len(top) : items[i].priority <= top[k].priority
            /\ unit.result.value.plan = unit.arg.plan

\* priorities 3, 5, 5 and N = 2: the two items of priority 5 in insertion
\* order, the first item omitted
C18_Witness ==
    /\ Done("top_keywords")
    /\ unit.arg.limit = 2
    /\ [i \in 1..Len(unit.arg.plan.items) |-> unit.arg.plan.items[i].priority] = <<3, 5, 5>>
    /\ [k \in 1..Len(unit.result.value.top) |-> unit.result.value.top[k].keyword]
          = <<"k2", "k3">>

\* C19: _clamp_priority returns an integer in 1..5 for every input and never
\* raises: an in-range integer is returned unchanged, a value below 1 gives 1,
\* a value above 5 gives 5, null gives 3 and a non-numeric value gives 3.
C19_ClampNeverRaises ==
    Done("_clamp_priority") =>
        /\ ~unit.result.raised
        /\ unit.result.value \in 1..5
        /\ unit.arg.t = "int" =>
              unit.result.value = (IF unit.arg.n < 1 THEN 1
                                   ELSE IF unit.arg.n > 5 THEN 5 ELSE unit.arg.n)
        /\ unit.arg.t = "null" => unit.result.value = 3
        /\ (unit.arg.t = "other" \/ (unit.arg.t = "str" /\ ~IsIntString(unit.arg.s)))
              => unit.result.value = 3

\* C20: _normalize_intent returns one of KNOW, COMPARE, BUY, NAVIGATIONAL for
\* every input: a label equal to one of the four when case is ignored maps to
\* that one; any other label maps by substring, NAV tested first, then COMP,
\* then BUY, PURCHASE or CV; a null, empty or unrecognised label maps to KNOW.
C20_IntentIsOneOfFour ==
    Done("_normalize_intent") =>
        LET label == IF unit.arg.t = "str" THEN Upper(unit.arg.s) ELSE ""
            got == unit.result.value
        IN  /\ ~unit.result.raised
            /\ got \in {"KNOW", "COMPARE", "BUY", "NAVIGATIONAL"}
            /\ unit.arg.t = "null" => got = "KNOW"
            /\ unit.arg.t = "str" =>
                  got = (CASE label \in {"KNOW", "COMPARE", "BUY", "NAVIGATIONAL"} -> label
                           [] label \notin {"KNOW", "COMPARE", "BUY", "NAVIGATIONAL"}
                              /\ Contains(label, "NAV") -> "NAVIGATIONAL"
                           [] label \notin {"KNOW", "COMPARE", "BUY", "NAVIGATIONAL"}
                              /\ ~Contains(label, "NAV")
                              /\ Contains(label, "COMP") -> "COMPARE"
                           [] label \notin {"KNOW", "COMPARE", "BUY", "NAVIGATIONAL"}
                              /\ ~Contains(label, "NAV") /\ ~Contains(label, "COMP")
                              /\ (Contains(label, "BUY") \/ Contains(label, "PURCHASE")
                                  \/ Contains(label, "CV")) -> "BUY"
                           [] OTHER -> "KNOW")

\* a noisy label that holds both NAV and COMP maps to NAVIGATIONAL
C20_Witness ==
    /\ Done("_normalize_intent")
    /\ unit.arg = JStr("nav-compare")
    /\ unit.result = Returned("NAVIGATIONAL")

----------------------------------------------------------------------------
(* Properties of build_strategy called on its own (SpecUnits) *)

\* the positions of the plan's items in the order top-N takes them: priority
\* descending, the earlier item first among equals
RankOf(items, i) ==
    1 + Cardinality({j \in 1..Len(items) :
                        \/ items[j].priority > items[i].priority
                        \/ items[j].priority = items[i].priority /\ j < i})

\* C21: with a plan and without the generative credential build_strategy
\* returns exactly one per-term entry for each of the plan's top 10 terms, in
\* priority order with ties in plan order, each with the placeholder content
\* type and exactly two actions; with no plan it returns the minimal generic
\* recommendation with no per-term entry. Neither result depends on what the
\* generative capability would answer.
C21_DeterministicTiers ==
    Done("build_strategy") =>
        LET got == unit.result.value
        IN  /\ unit.arg.keyword_plan = None =>
                  /\ got.seed_keyword = unit.arg.seed_keyword
                  /\ got.overview # ""
                  /\ Len(got.global_recommendations) = 2
                  /\ got.keyword_strategies = <<>>
            /\ (unit.arg.keyword_plan # None /\ ~unit.arg.has_key) =>
                  LET items == unit.arg.keyword_plan[1].items
                      entries == got.keyword_strategies
                  IN  /\ got.seed_keyword = unit.arg.seed_keyword
                      /\ Len(entries) = (IF Len(items) < 10 THEN Len(items) ELSE 10)
                      /\ \A i \in 1..Len(items) :
                            RankOf(items, i) <= 10 =>
                               /\ entries[RankOf(items, i)].keyword = items[i].keyword
                               /\ entries[RankOf(items, i)].priority = Some(items[i].priority)
                               /\ entries[RankOf(items, i)].intent = Some(items[i].intent)
                      /\ \A k \in 1..Len(entries) :
                            /\ entries[k].recommended_content_type
                                  = Some("category or kiji page (fallback)")
                            /\ Len(entries[k].recommended_actions) = 2
            /\ (unit.arg.keyword_plan = None \/ ~unit.arg.has_key) =>
                  got = build_strategy(unit.arg.seed_keyword, unit.arg.keyword_plan, <<>>,
                                       unit.arg.has_key, NoCall)

\* the plan of twelve items, no credential: ten entries, the first for an
\* item of priority 5, the two items left out of the lowest priority
C21_Witness ==
    /\ Done("build_strategy")
    /\ unit.arg.keyword_plan = Some(LongPlan)
    /\ ~unit.arg.has_key
    /\ Len(unit.result.value.keyword_strategies) = 10
    /\ unit.result.value.keyword_strategies[1].priority = Some(5)
    /\ unit.result.value.keyword_strategies[1].keyword = "k2"

\* the generative call of the strategist failed: a transport error, or text
\* that does not parse into the expected JSON object
StrategyCallFailed(answer) ==
    \/ answer.kind \in {"transport_error", "bad_json"}
    \/ answer.kind = "json" /\ answer.invalid

\* C22: with the generative credential set and the call failing by a
\* transport error or by text that does not parse into the expected JSON
\* object, build_strategy does not raise and returns what it returns for the
\* same topic and plan without the credential: the same per-term entries and
\* the same global recommendations, the overview differing only by an error
\* annotation appended to it.
C22_FailureFallsBackToTierTwo ==
    ( /\ Done("build_strategy")
      /\ unit.arg.keyword_plan # None
      /\ unit.arg.has_key
      /\ StrategyCallFailed(unit.arg.answer) )
    => LET got == unit.result.value
           tier2 == build_strategy(unit.arg.seed_keyword, unit.arg.keyword_plan, <<>>,
                                   FALSE, NoCall)
       IN  /\ ~unit.result.raised
           /\ got.seed_keyword = tier2.seed_keyword
           /\ StartsWith(got.overview, tier2.overview)
           /\ Len(got.overview) > Len(tier2.overview)
           /\ got.global_recommendations = tier2.global_recommendations
           /\ got.keyword_strategies = tier2.keyword_strategies

----------------------------------------------------------------------------
(* Properties of analyze_keyword_structures called on its own (SpecUnits) *)

\* analyze_keyword_structures was called and returned
Analyzed == Done("analyze_keyword_structures") /\ ~unit.result.raised

\* the number of entries of the given level in a flat heading list
LevelCount(headings, level) ==
    Cardinality({i \in 1..Len(headings) : headings[i].level = level})

\* the same documents, each with its heading tree replaced by tree
WithTree(pages, tree) == [i \in 1..Len(pages) |-> [pages[i] EXCEPT !.heading_tree = tree]]

\* C23: for every document h2_count is the number of level-2 entries and
\* h3_count the number of level-3 entries of the flat heading list (two
\* level-2 and one level-3 entries give 2 and 1); both are unchanged when the
\* heading tree of the document is replaced by another tree, an empty one
\* included.
C23_HeadingCountsFromFlatList ==
    Analyzed =>
        LET pages == unit.arg.pages
            got == unit.result.value.pages
        IN  \A i \in 1..Len(got) :
               /\ got[i].h2_count = LevelCount(pages[i].headings, 2)
               /\ got[i].h3_count = LevelCount(pages[i].headings, 3)
               /\ \A tree \in {<<>>, <<HeadingNode(2, "only", <<>>)>>, pages[i].headings} :
                     LET other == analyze_keyword_structures(unit.arg.keyword,
                                                             WithTree(pages, tree)).value.pages
                     IN  /\ other[i].h2_count = got[i].h2_count
                         /\ other[i].h3_count = got[i].h3_count

\* a document with two h2 and one h3 in the flat list and a tree of two roots
C23_Witness ==
    /\ Analyzed
    /\ Len(unit.arg.pages) = 1
    /\ Len(unit.arg.pages[1].heading_tree) = 2
    /\ Len(unit.arg.pages[1].headings) = 3
    /\ unit.result.value.pages[1].h2_count = 2
    /\ unit.result.value.pages[1].h3_count = 1

\* term occurs in text at some position, characters compared as they are
OccursIn(term, text) ==
    \E k \in 1..(Len(text) - Len(term) + 1) : SubSeq(text, k, k + Len(term) - 1) = term

\* C24: keyword_in_title is true exactly when the term is a case-sensitive
\* substring of the document's title, a missing title counting as the empty
\* string: for the term "Pump" the title "industrial pump guide" gives false
\* and the title "Pump guide" gives true.
C24_KeywordInTitle ==
    Analyzed =>
        LET pages == unit.arg.pages
            got == unit.result.value.pages
            term == unit.arg.keyword
        IN  \A i \in 1..Len(got) :
               LET title == IF pages[i].title = None THEN "" ELSE pages[i].title[1]
               IN  /\ got[i].keyword_in_title = OccursIn(term, title)
                   /\ (term = "Pump" /\ title = "industrial pump guide")
                         => ~got[i].keyword_in_title
                   /\ (term = "Pump" /\ title = "Pump guide") => got[i].keyword_in_title
                   /\ pages[i].title = None => ~got[i].keyword_in_title

\* the term "Pump" against the title "industrial pump guide"
C24_Witness ==
    /\ Analyzed
    /\ unit.arg.keyword = "Pump"
    /\ Len(unit.arg.pages) = 1
    /\ unit.arg.pages[1].title = Some("industrial pump guide")
    /\ ~unit.result.value.pages[1].keyword_in_title

----------------------------------------------------------------------------
(* Properties of _llm_plan called on its own (SpecUnits) *)

\* C25: every plan _llm_plan returns has at most max_items items, and every
\* item has a non-empty term, a priority in 1..5, one of the four intents and
\* a rationale of at most 30 characters, whatever list the capability
\* answered with: longer lists, entries that are no objects and entries
\* without a term included.
C25_PlanIsCappedAndNormalized ==
    (Done("_llm_plan") /\ ~unit.result.raised) =>
        LET items == unit.result.value.items
        IN  /\ Len(items) <= unit.arg.max_items
            /\ \A i \in 1..Len(items) :
                  /\ items[i].keyword # ""
                  /\ items[i].priority \in 1..5
                  /\ items[i].intent \in {"KNOW", "COMPARE", "BUY", "NAVIGATIONAL"}
                  /\ items[i].reason # None => Len(items[i].reason[1]) <= 30

\* the answer with sixteen entries and the default ceiling: twelve entries
\* read, ten items made, reasons cut, priorities clamped at both ends
C25_Witness ==
    /\ Done("_llm_plan")
    /\ unit.arg.answer = LongPlannerAnswer
    /\ unit.arg.max_items = 12
    /\ ~unit.result.raised
    /\ Len(unit.result.value.items) = 10
    /\ unit.result.value.items[1].priority = 1
    /\ unit.result.value.items[10].priority = 5
    /\ Len(unit.result.value.items[1].reason[1]) = 30
    /\ unit.result.value.items[1].intent = "BUY"

\* C26: analyze_keyword_structures(keyword, pages) returns one metrics
\* record for every one of the first MAX_PAGES_PER_KEYWORD documents, in the
\* order of the documents, and the call on the documents cut to that length
\* beforehand returns the same.
C26_OneRecordPerDocumentOfTheFirst ==
    Done("analyze_keyword_structures") =>
        LET pages == unit.arg.pages
            first == Take(pages, MAX_PAGES_PER_KEYWORD)
        IN  /\ ~unit.result.raised
            /\ Len(unit.result.value.pages) = Len(first)
            /\ \A i \in 1..Len(first) : unit.result.value.pages[i].url = first[i].url
            /\ analyze_keyword_structures(unit.arg.keyword, first) = unit.result

\* the positions of text at which term occurs
Occurrences(term, text) ==
    {k \in 1..(Len(text) - Len(term) + 1) : SubSeq(text, k, k + Len(term) - 1) = term}

\* C27: keyword_term_freq is the number of occurrences of the term as a
\* case-sensitive substring of the document's main text, occurrences that
\* overlap each other counted each, and 0 when the main text is empty.
C27_TermFreqCountsEveryOccurrence ==
    Analyzed =>
        \A i \in 1..Len(unit.result.value.pages) :
            unit.result.value.pages[i].keyword_term_freq
                = Cardinality(Occurrences(unit.arg.keyword, unit.arg.pages[i].main_text))

\* C30: keyword_in_h1 is true exactly when the term is a case-sensitive
\* substring of at least one entry of the document's h1 list: the term "a b"
\* with the entries "a" and "b" gives false, and so does every non-empty
\* term with no entry.
C30_KeywordInOneH1Entry ==
    Analyzed =>
        \A i \in 1..Len(unit.result.value.pages) :
            unit.result.value.pages[i].keyword_in_h1
                = (\E j \in 1..Len(unit.arg.pages[i].h1_list) :
                       OccursIn(unit.arg.keyword, unit.arg.pages[i].h1_list[j]))

----------------------------------------------------------------------------
(* Properties of one run (Spec), continued *)

\* the keywords of the sources map for which the documents map holds at
\* least one document
KeywordsWithDocuments(st) ==
    {kw \in DOMAIN st.serp_results : Len(PagesOf(st.site_structures, kw)) > 0}

\* C28: once analyzer_node has returned, the keys of the analysis map are
\* exactly the keywords of the sources map that have at least one document
\* in the documents map, and no analysis entry has an empty list of metrics.
C28_AnalysisCoversEveryKeywordWithDocuments ==
    \A r \in runs :
        pc[r] \in {"strategist", "done"}
        => /\ DOMAIN state[r].analysis = KeywordsWithDocuments(state[r])
           /\ \A kw \in DOMAIN state[r].analysis : Len(state[r].analysis[kw].pages) > 0

RECURSIVE ClosingAt(_, _)
\* the position of the first "]" of line from position i on, 0 when none
ClosingAt(line, i) ==
    IF i > Len(line) THEN 0
    ELSE IF SubSeq(line, i, i) = "]" THEN i
    ELSE ClosingAt(line, i + 1)

\* the stage a progress line "[stage] message" names
StageOfLine(line) ==
    IF Len(line) > 0 /\ SubSeq(line, 1, 1) = "[" /\ ClosingAt(line, 2) > 0
    THEN Some(SubSeq(line, 2, ClosingAt(line, 2) - 1))
    ELSE None

LastLine(st) == st.progress_messages[Len(st.progress_messages)]

\* C29: a stage call only appends to the progress log: the log before the
\* call is a prefix of the log after it, the call appends at least one line,
\* and after it the marker is the stage the last line of the log names.
C29_LogOnlyGrowsByAppending ==
    [][\A r \in runs :
          env'[r].trace # env[r].trace
          => /\ IsPrefix(state[r].progress_messages, state'[r].progress_messages)
             /\ Len(NewLines(state[r], state'[r])) >= 1
             /\ state'[r].current_node = StageOfLine(LastLine(state'[r]))
             /\ state'[r].current_node = Some(LastCalled(env'[r]))]_vars

\* a run stopped by the exception analyzer_node let through: the log holds
\* the six lines of the stages before it and the analyzer's line of entry,
\* and the marker names the analyzer
C29_Witness ==
    /\ pc[1] = "raised"
    /\ env[1].trace = SubSeq(Stages, 1, 4)
    /\ Len(state[1].progress_messages) = 7
    /\ StageOfLine(LastLine(state[1])) = Some("analyzer")
    /\ state[1].current_node = Some("analyzer")
====
